---- MODULE Spec2Model ----
(***************************************************************************)
(* Retrieval engine of the government-schemes RAG system:                  *)
(*   rag/vector_store.py  VectorStore, SchemeVectorStore                   *)
(*   rag/rag_engine.py    GovernmentSchemeRAG                              *)
(*                                                                         *)
(* Conventions.                                                            *)
(*  - A Python str is a sequence of one-character strings.                 *)
(*  - A Python value is a pair <<kind, payload>>: <<"str", s>>,            *)
(*    <<"int", n>>, <<"list", seq of values>>.                             *)
(*  - A dict is a sequence of <<key, value>> pairs with distinct keys, in  *)
(*    insertion order (the order Python iterates it in); a document's      *)
(*    metadata is a function from the field names it holds to values.      *)
(*  - Vectors are pairs of integers; a unit vector is held scaled by 10,   *)
(*    so a similarity score is held in hundredths.                         *)
(***************************************************************************)
EXTENDS Integers, Sequences, FiniteSets, TLC

----------------------------------------------------------------------------
(* Python str operations *)

UpperLetters == <<"A","B","C","D","E","F","G","H","I","J","K","L","M",
                  "N","O","P","Q","R","S","T","U","V","W","X","Y","Z">>

LowerLetters == <<"a","b","c","d","e","f","g","h","i","j","k","l","m",
                  "n","o","p","q","r","s","t","u","v","w","x","y","z">>

DigitChars == <<"0","1","2","3","4","5","6","7","8","9">>

LetterIndex ==
    [c \in {UpperLetters[i] : i \in 1..Len(UpperLetters)}
             \cup {LowerLetters[i] : i \in 1..Len(LowerLetters)} |->
        CHOOSE i \in 1..Len(UpperLetters) : UpperLetters[i] = c \/ LowerLetters[i] = c]

IsLetter(c) == c \in DOMAIN LetterIndex

(* str.lower() on one character *)
LowerChar(c) == IF c \in DOMAIN LetterIndex THEN LowerLetters[LetterIndex[c]] ELSE c

(* str.upper() on one character *)
UpperChar(c) == IF c \in DOMAIN LetterIndex THEN UpperLetters[LetterIndex[c]] ELSE c

(* s.lower() *)
StrLower(s) == [i \in 1..Len(s) |-> LowerChar(s[i])]

(* s.title(): a letter that follows no letter is upper-cased, any other *)
(* letter is lower-cased                                                *)
StrTitle(s) ==
    [i \in 1..Len(s) |->
        IF i = 1 \/ ~IsLetter(s[IF i = 1 THEN 1 ELSE i - 1])
        THEN UpperChar(s[i])
        ELSE LowerChar(s[i])]

(* p in s, for two strings *)
IsSubstring(p, s) ==
    \E i \in 0..(Len(s) - Len(p)) : SubSeq(s, i + 1, i + Len(p)) = p

(* str(n) for an integer n >= 0 *)
RECURSIVE IntToStr(_)
IntToStr(n) ==
    IF n < 10
    THEN <<DigitChars[n + 1]>>
    ELSE IntToStr(n \div 10) \o <<DigitChars[(n % 10) + 1]>>

(* set(s.split()): the maximal runs of non-blank characters; word is the *)
(* run being read at position i                                           *)
RECURSIVE SplitFrom(_, _, _)
SplitFrom(s, i, word) ==
    IF i > Len(s)
    THEN IF word = <<>> THEN {} ELSE {word}
    ELSE IF s[i] = " "
         THEN (IF word = <<>> THEN {} ELSE {word}) \cup SplitFrom(s, i + 1, <<>>)
         ELSE SplitFrom(s, i + 1, Append(word, s[i]))

StrWords(s) == SplitFrom(s, 1, <<>>)

----------------------------------------------------------------------------
(* Bounds of the model *)

MaxDocs == 3

MaxK == 2

MaxFilterLen == 2

----------------------------------------------------------------------------
(* Strings of the model *)

sAgriculture == <<"A","g","r","i","c","u","l","t","u","r","e">>

sAgricultureLower == <<"a","g","r","i","c","u","l","t","u","r","e">>

sAgricultureAllied == <<"A","g","r","i","c","u","l","t","u","r","e"," ","a","n","d"," ","A","l","l","i","e","d">>

sEducation == <<"E","d","u","c","a","t","i","o","n">>

sEducationLower == <<"e","d","u","c","a","t","i","o","n">>

sHealth == <<"H","e","a","l","t","h">>

sKerala == <<"K","e","r","a","l","a">>

s2020 == <<"2","0","2","0">>

s20 == <<"2","0">>

sFarmerLoanScheme == <<"F","a","r","m","e","r"," ","L","o","a","n"," ","S","c","h","e","m","e">>

sStudentScholarship == <<"S","t","u","d","e","n","t"," ","S","c","h","o","l","a","r","s","h","i","p">>

sCropInsurance == <<"C","r","o","p"," ","I","n","s","u","r","a","n","c","e">>

sLoanSupport == <<"L","o","a","n"," ","S","u","p","p","o","r","t">>

sLoan == <<"l","o","a","n">>

qFarmerSupport == <<"f","a","r","m","e","r"," ","s","u","p","p","o","r","t">>

qLoanScheme == <<"l","o","a","n"," ","s","c","h","e","m","e">>

sLoanLoanScheme == <<"L","o","a","n"," ","l","o","a","n"," ","S","c","h","e","m","e">>

qLoanLoanSupport == <<"l","o","a","n"," ","L","o","a","n"," ","s","u","p","p","o","r","t">>

QueryTexts == {qFarmerSupport, qLoanScheme, qLoanLoanSupport}

(* What the str operations give on the strings of the model, computed *)
(* once                                                               *)
ModelStrings ==
    {<<>>, sAgriculture, sAgricultureLower, sAgricultureAllied, sEducation,
     sEducationLower, sHealth, sKerala, s2020, s20, sFarmerLoanScheme,
     sStudentScholarship, sCropInsurance, sLoanSupport, sLoan,
     qFarmerSupport, qLoanScheme, sLoanLoanScheme, qLoanLoanSupport}

WordsTable == [s \in ModelStrings |-> StrWords(StrLower(s))]

ContainsTable ==
    [p \in ModelStrings \X ModelStrings |-> IsSubstring(StrLower(p[1]), StrLower(p[2]))]

(* set(s.lower().split()) *)
LowerWords(s) ==
    IF s \in ModelStrings THEN WordsTable[s] ELSE StrWords(StrLower(s))

(* p.lower() in s.lower() *)
LowerContains(p, s) ==
    IF p \in ModelStrings /\ s \in ModelStrings
    THEN ContainsTable[<<p, s>>]
    ELSE IsSubstring(StrLower(p), StrLower(s))

----------------------------------------------------------------------------
(* Python values *)

StrV(s) == <<"str", s>>

IntV(n) == <<"int", n>>

ListV(l) == <<"list", l>>

IsList(v) == v[1] = "list"

IsStr(v) == v[1] = "str"

(* a == b for two values: values of different kinds are unequal *)
PyEq(a, b) == a[1] = b[1] /\ a[2] = b[2]

(* x in l, for a list l *)
PyIn(x, l) == \E i \in 1..Len(l) : PyEq(l[i], x)

(* str(v) for a scalar value *)
PyStr(v) == IF IsStr(v) THEN v[2] ELSE IntToStr(v[2])

----------------------------------------------------------------------------
(* VectorStore._matches_filters *)

(* A variant of one turn of the loop that treats every scalar value alike: *)
(* str(value).lower() in str(doc_value).lower(), whatever the type of     *)
(* value.  The code does so for str values only.                          *)
MatchesEntryStringified(metadata, key, value) ==
    IF key \in DOMAIN metadata
    THEN IF value[1] = "list"
         THEN \E i \in 1..Len(value[2]) :
                 value[2][i][1] = metadata[key][1] /\ value[2][i][2] = metadata[key][2]
         ELSE IsSubstring(StrLower(IF value[1] = "str" THEN value[2] ELSE IntToStr(value[2])),
                          StrLower(IF metadata[key][1] = "str" THEN metadata[key][2]
                                   ELSE IntToStr(metadata[key][2])))
    ELSE FALSE

(* A variant of one turn of the loop that gives a list value the substring *)
(* semantics of a str value, element by element.                           *)
MatchesEntryListSubstring(metadata, key, value) ==
    IF key \in DOMAIN metadata
    THEN IF value[1] = "list"
         THEN \E i \in 1..Len(value[2]) :
                 /\ value[2][i][1] = "str"
                 /\ IsSubstring(StrLower(value[2][i][2]),
                                StrLower(IF metadata[key][1] = "str" THEN metadata[key][2]
                                         ELSE IntToStr(metadata[key][2])))
         ELSE IF value[1] = "str"
              THEN IsSubstring(StrLower(value[2]),
                               StrLower(IF metadata[key][1] = "str" THEN metadata[key][2]
                                        ELSE IntToStr(metadata[key][2])))
              ELSE value[1] = metadata[key][1] /\ value[2] = metadata[key][2]
    ELSE FALSE

(* One turn of the loop over filters.items(): TRUE when the loop goes on *)
(* to the next entry, FALSE when it returns False.                       *)
MatchesEntry(metadata, key, value) ==
    IF key \in DOMAIN metadata
    THEN LET doc_value == metadata[key] IN
         IF IsList(value)
         THEN PyIn(doc_value, value[2])
         ELSE IF IsStr(value)
              THEN LowerContains(value[2], PyStr(doc_value))
              ELSE PyEq(doc_value, value)
    ELSE FALSE

RECURSIVE MatchesFrom(_, _, _)
MatchesFrom(metadata, filters, i) ==
    IF i > Len(filters)
    THEN TRUE
    ELSE IF MatchesEntry(metadata, filters[i][1], filters[i][2])
         THEN MatchesFrom(metadata, filters, i + 1)
         ELSE FALSE

(* A variant of the evaluator that looks at the first entry of filters only *)
MatchesFirstEntry(doc, filters) ==
    IF Len(filters) = 0
    THEN TRUE
    ELSE filters[1][1] \in DOMAIN doc.metadata
         /\ MatchesFrom(doc.metadata, <<filters[1]>>, 1)

_matches_filters(doc, filters) == MatchesFrom(doc.metadata, filters, 1)

----------------------------------------------------------------------------
(* Vectors.  np.linalg.norm and the division by it, on integer vectors    *)
(* whose norm is an integer; a unit vector is held scaled by 10, so an    *)
(* inner product of two unit vectors is held in hundredths.               *)

Abs(n) == IF n < 0 THEN 0 - n ELSE n

VecNorm(v) ==
    CHOOSE n \in 0..(Abs(v[1]) + Abs(v[2])) : n * n = v[1] * v[1] + v[2] * v[2]

Normalize(v) == LET norm == VecNorm(v) IN <<(v[1] * 10) \div norm, (v[2] * 10) \div norm>>

InnerProduct(a, b) == a[1] * b[1] + a[2] * b[2]

----------------------------------------------------------------------------
(* SchemeDocument: id, content, metadata, embedding (<<>> is None) *)

SchemeDocument(id, content, metadata, embedding) ==
    [id |-> id, content |-> content, metadata |-> metadata, embedding |-> embedding]

NoEmbedding == <<>>

DocA ==
    SchemeDocument("A", <<"a">>,
        [category |-> StrV(sAgriculture), scheme_name |-> StrV(sFarmerLoanScheme)],
        <<3, 4>>)

DocB ==
    SchemeDocument("B", <<"b">>,
        [category |-> StrV(sEducation), scheme_name |-> StrV(sStudentScholarship)],
        <<4, 3>>)

DocC ==
    SchemeDocument("C", <<"c">>,
        [category |-> StrV(sAgriculture), scheme_name |-> StrV(sCropInsurance)],
        <<6, 8>>)

DocD ==
    SchemeDocument("D", <<"d">>,
        [scheme_name |-> StrV(sLoanSupport), state_name |-> StrV(sKerala)],
        <<0, 5>>)

DocPool == {DocA, DocB, DocC, DocD}

QueryVectors == {<<3, 4>>, <<0, 10>>}

----------------------------------------------------------------------------
(* Optional[Dict]: None, or a dict *)

PyNone == <<"none", <<>>>>

DictV(pairs) == <<"dict", pairs>>

(* the truth value Python gives an Optional[Dict] *)
Truthy(f) == f[1] = "dict" /\ Len(f[2]) > 0

----------------------------------------------------------------------------
(* faiss.IndexFlatIP.search(x, n) over the vectors of the index.           *)
(* The library returns n (score, position) pairs, positions counted from   *)
(* 0, best inner product first.  It pads with position -1 when the index   *)
(* holds fewer than n vectors, it fixes no order among equal scores, and   *)
(* for n = 0 it either rejects the call (an assertion on n > 0) or returns *)
(* nothing, depending on its version.                                      *)

Min(a, b) == IF a < b THEN a ELSE b

(* the rankings of the m best positions among the positions left: each   *)
(* starts with a position of the greatest score and goes on with a       *)
(* ranking of the others                                                 *)
RECURSIVE BestFirst(_, _, _)
BestFirst(scores, left, m) ==
    IF m = 0
    THEN {<<>>}
    ELSE UNION { { <<p>> \o rest : rest \in BestFirst(scores, left \ {p}, m - 1) } :
                   p \in {x \in left : \A y \in left : scores[x] >= scores[y]} }

FaissRankings(index, q, m) ==
    UNION { BestFirst(scores, 0..(Len(index) - 1), m) :
              scores \in {[p \in 0..(Len(index) - 1) |-> InnerProduct(index[p + 1], q)]} }

FaissHits(index, q, s, n) ==
    [i \in 1..n |->
        IF i <= Len(s)
        THEN <<InnerProduct(index[s[i] + 1], q), s[i]>>
        ELSE <<0 - 1000000, 0 - 1>>]

FaissSearch(index, q, n) ==
    IF n = 0
    THEN {[raised |-> TRUE, hits |-> <<>>], [raised |-> FALSE, hits |-> <<>>]}
    ELSE { [raised |-> FALSE, hits |-> FaissHits(index, q, s, n)] :
             s \in FaissRankings(index, q, Min(n, Len(index))) }

----------------------------------------------------------------------------
(* VectorStore.search *)

(* documents[idx], idx counted from 0, a negative idx counted from the end *)
PyIndex(documents, idx) ==
    IF idx >= 0 THEN documents[idx + 1] ELSE documents[Len(documents) + idx + 1]

(* The loop over zip(scores[0], indices[0]) from its i-th turn on.  A     *)
(* result is the pair (doc, score) the code returns; pos records the      *)
(* position the document was read at.                                     *)
RECURSIVE CollectResults(_, _, _, _, _, _)
CollectResults(documents, filters, k, hits, i, results) ==
    IF i > Len(hits)
    THEN results
    ELSE LET score == hits[i][1]
             idx == hits[i][2]
         IN  IF idx < Len(documents)
             THEN LET doc == PyIndex(documents, idx) IN
                  IF Truthy(filters) /\ ~_matches_filters(doc, filters[2])
                  THEN CollectResults(documents, filters, k, hits, i + 1, results)
                  ELSE LET more == Append(results,
                                      [doc |-> doc, score |-> score,
                                       pos |-> IF idx >= 0 THEN idx ELSE Len(documents) + idx])
                       IN  IF Len(more) >= k
                           THEN more
                           ELSE CollectResults(documents, filters, k, hits, i + 1, more)
             ELSE CollectResults(documents, filters, k, hits, i + 1, results)

(* the number of candidates search asks the index for *)
CandidateCount(k, documents) == Min(k * 2, Len(documents))

(* A variant of search that never applies the filters *)
SearchUnfiltered(index, documents, query_embedding, k, filters) ==
    UNION { { [raised |-> f.raised,
               hits |-> f.hits,
               results |-> IF f.raised THEN <<>>
                           ELSE CollectResults(documents, PyNone, k, f.hits, 1, <<>>)] :
                f \in FaissSearch(index, unit, CandidateCount(k, documents)) } :
            unit \in {Normalize(query_embedding)} }

(* A variant of search that goes through all the candidates and does not *)
(* stop at k results                                                     *)
SearchAllCandidates(index, documents, query_embedding, k, filters) ==
    UNION { { [raised |-> f.raised,
               hits |-> f.hits,
               results |-> IF f.raised THEN <<>>
                           ELSE CollectResults(documents, filters, Len(f.hits) + 1,
                                               f.hits, 1, <<>>)] :
                f \in FaissSearch(index, unit, CandidateCount(k, documents)) } :
            unit \in {Normalize(query_embedding)} }

(* The outcomes of search(query_embedding, k, filters) on a store: either *)
(* the call raises, or it returns a list of results.                      *)
search(index, documents, query_embedding, k, filters) ==
    UNION { { [raised |-> f.raised,
               hits |-> f.hits,
               results |-> IF f.raised THEN <<>>
                           ELSE CollectResults(documents, filters, k, f.hits, 1, <<>>)] :
                f \in FaissSearch(index, unit, CandidateCount(k, documents)) } :
            unit \in {Normalize(query_embedding)} }

(* SchemeVectorStore.search_by_category / search_by_state / search_by_ministry *)
search_by_category(index, documents, query_embedding, category, k) ==
    search(index, documents, query_embedding, k, DictV(<< <<"category", category>> >>))

search_by_state(index, documents, query_embedding, state, k) ==
    search(index, documents, query_embedding, k, DictV(<< <<"state_name", state>> >>))

search_by_ministry(index, documents, query_embedding, ministry, k) ==
    search(index, documents, query_embedding, k, DictV(<< <<"implementing_ministry", ministry>> >>))

----------------------------------------------------------------------------
(* GovernmentSchemeRAG._extract_query_filters *)

indian_states ==
    <<
      <<"a","n","d","h","r","a"," ","p","r","a","d","e","s","h">>,
      <<"a","r","u","n","a","c","h","a","l"," ","p","r","a","d","e","s","h">>,
      <<"a","s","s","a","m">>,
      <<"b","i","h","a","r">>,
      <<"c","h","h","a","t","t","i","s","g","a","r","h">>,
      <<"g","o","a">>,
      <<"g","u","j","a","r","a","t">>,
      <<"h","a","r","y","a","n","a">>,
      <<"h","i","m","a","c","h","a","l"," ","p","r","a","d","e","s","h">>,
      <<"j","h","a","r","k","h","a","n","d">>,
      <<"k","a","r","n","a","t","a","k","a">>,
      <<"k","e","r","a","l","a">>,
      <<"m","a","d","h","y","a"," ","p","r","a","d","e","s","h">>,
      <<"m","a","h","a","r","a","s","h","t","r","a">>,
      <<"m","a","n","i","p","u","r">>,
      <<"m","e","g","h","a","l","a","y","a">>,
      <<"m","i","z","o","r","a","m">>,
      <<"n","a","g","a","l","a","n","d">>,
      <<"o","d","i","s","h","a">>,
      <<"p","u","n","j","a","b">>,
      <<"r","a","j","a","s","t","h","a","n">>,
      <<"s","i","k","k","i","m">>,
      <<"t","a","m","i","l"," ","n","a","d","u">>,
      <<"t","e","l","a","n","g","a","n","a">>,
      <<"t","r","i","p","u","r","a">>,
      <<"u","t","t","a","r"," ","p","r","a","d","e","s","h">>,
      <<"u","t","t","a","r","a","k","h","a","n","d">>,
      <<"w","e","s","t"," ","b","e","n","g","a","l">>,
      <<"d","e","l","h","i">>,
      <<"c","h","a","n","d","i","g","a","r","h">>,
      <<"d","a","d","r","a"," ","a","n","d"," ","n","a","g","a","r"," ","h","a","v","e","l","i">>,
      <<"d","a","m","a","n"," ","a","n","d"," ","d","i","u">>,
      <<"l","a","k","s","h","a","d","w","e","e","p">>,
      <<"p","u","d","u","c","h","e","r","r","y">>,
      <<"a","n","d","a","m","a","n"," ","a","n","d"," ","n","i","c","o","b","a","r"," ","i","s","l","a","n","d","s">>,
      <<"l","a","d","a","k","h">>,
      <<"j","a","m","m","u"," ","a","n","d"," ","k","a","s","h","m","i","r">>
    >>

category_keywords ==
    <<
      <<<<"a","g","r","i","c","u","l","t","u","r","e">>,
        <<<<"f","a","r","m","i","n","g">>,
          <<"f","a","r","m","e","r">>,
          <<"a","g","r","i","c","u","l","t","u","r","e">>,
          <<"c","r","o","p">>,
          <<"i","r","r","i","g","a","t","i","o","n">>>>>>,
      <<<<"e","d","u","c","a","t","i","o","n">>,
        <<<<"e","d","u","c","a","t","i","o","n">>,
          <<"s","t","u","d","e","n","t">>,
          <<"s","c","h","o","o","l">>,
          <<"s","c","h","o","l","a","r","s","h","i","p">>,
          <<"l","e","a","r","n","i","n","g">>>>>>,
      <<<<"h","e","a","l","t","h">>,
        <<<<"h","e","a","l","t","h">>,
          <<"m","e","d","i","c","a","l">>,
          <<"h","o","s","p","i","t","a","l">>,
          <<"d","o","c","t","o","r">>,
          <<"h","e","a","l","t","h","c","a","r","e">>>>>>,
      <<<<"e","m","p","l","o","y","m","e","n","t">>,
        <<<<"j","o","b">>,
          <<"e","m","p","l","o","y","m","e","n","t">>,
          <<"s","k","i","l","l">>,
          <<"t","r","a","i","n","i","n","g">>,
          <<"c","a","r","e","e","r">>>>>>,
      <<<<"w","o","m","e","n">>,
        <<<<"w","o","m","e","n">>,
          <<"g","i","r","l">>,
          <<"m","o","t","h","e","r">>,
          <<"f","e","m","a","l","e">>>>>>,
      <<<<"y","o","u","t","h">>,
        <<<<"y","o","u","t","h">>,
          <<"y","o","u","n","g">>,
          <<"t","e","e","n","a","g","e","r">>>>>>,
      <<<<"s","e","n","i","o","r"," ","c","i","t","i","z","e","n","s">>,
        <<<<"s","e","n","i","o","r">>,
          <<"e","l","d","e","r","l","y">>,
          <<"o","l","d"," ","a","g","e">>,
          <<"p","e","n","s","i","o","n">>>>>>,
      <<<<"d","i","s","a","b","i","l","i","t","y">>,
        <<<<"d","i","s","a","b","i","l","i","t","y">>,
          <<"d","i","s","a","b","l","e","d">>,
          <<"d","i","f","f","e","r","e","n","t","l","y"," ","a","b","l","e","d">>>>>>,
      <<<<"h","o","u","s","i","n","g">>,
        <<<<"h","o","u","s","e">>,
          <<"h","o","m","e">>,
          <<"h","o","u","s","i","n","g">>,
          <<"s","h","e","l","t","e","r">>>>>>,
      <<<<"b","u","s","i","n","e","s","s">>,
        <<<<"b","u","s","i","n","e","s","s">>,
          <<"e","n","t","r","e","p","r","e","n","e","u","r">>,
          <<"s","t","a","r","t","u","p">>,
          <<"m","s","m","e">>>>>>
    >>

(* the dict d after d[key] = value *)
DictSet(d, key, value) ==
    IF \E i \in 1..Len(d) : d[i][1] = key
    THEN [i \in 1..Len(d) |-> IF d[i][1] = key THEN <<key, value>> ELSE d[i]]
    ELSE Append(d, <<key, value>>)

(* the dict d after d.update(e) *)
RECURSIVE DictUpdate(_, _)
DictUpdate(d, e) ==
    IF e = <<>> THEN d ELSE DictUpdate(DictSet(d, e[1][1], e[1][2]), Tail(e))

(* A variant of the scan that goes through the whole list and keeps the *)
(* last state found                                                     *)
LastState(query_lower) ==
    IF \E i \in 1..Len(indian_states) : IsSubstring(indian_states[i], query_lower)
    THEN CHOOSE i \in 1..Len(indian_states) :
            /\ IsSubstring(indian_states[i], query_lower)
            /\ \A j \in (i + 1)..Len(indian_states) :
                  ~IsSubstring(indian_states[j], query_lower)
    ELSE 0

(* the first state of the list found in the query: 0 when there is none *)
FirstState(query_lower) ==
    IF \E i \in 1..Len(indian_states) : IsSubstring(indian_states[i], query_lower)
    THEN CHOOSE i \in 1..Len(indian_states) :
            /\ IsSubstring(indian_states[i], query_lower)
            /\ \A j \in 1..(i - 1) : ~IsSubstring(indian_states[j], query_lower)
    ELSE 0

CategoryHit(i, query_lower) ==
    \E n \in 1..Len(category_keywords[i][2]) :
        IsSubstring(category_keywords[i][2][n], query_lower)

(* the first category of the mapping one of whose keywords is found *)
FirstCategory(query_lower) ==
    IF \E i \in 1..Len(category_keywords) : CategoryHit(i, query_lower)
    THEN CHOOSE i \in 1..Len(category_keywords) :
            /\ CategoryHit(i, query_lower)
            /\ \A j \in 1..(i - 1) : ~CategoryHit(j, query_lower)
    ELSE 0

_extract_query_filters(query) ==
    LET query_lower == StrLower(query)
        st == FirstState(query_lower)
        cat == FirstCategory(query_lower)
        f1 == IF st > 0
              THEN << <<"state_name", StrV(StrTitle(indian_states[st]))>> >>
              ELSE <<>>
    IN  IF cat > 0
        THEN DictSet(f1, "category", StrV(StrTitle(category_keywords[cat][1])))
        ELSE f1

----------------------------------------------------------------------------
(* GovernmentSchemeRAG._rank_schemes_by_relevance *)

(* metadata.get(key, '') *)
MetaGet(metadata, key) == IF key \in DOMAIN metadata THEN metadata[key] ELSE StrV(<<>>)

(* content[:500] + "..." if len(content) > 500 else content *)
Description(content) ==
    IF Len(content) > 500 THEN SubSeq(content, 1, 500) \o <<".", ".", ".">> ELSE content

(* A variant of the overlap that counts every occurrence of a query word *)
(* in the scheme name                                                    *)
NameOverlapCounted(query, doc) ==
    LET name == StrLower(MetaGet(doc.metadata, "scheme_name")[2])
        starts == {i \in 1..Len(name) : name[i] # " " /\ (i = 1 \/ name[i - 1] = " ")}
        WordAt(i) ==
            LET end == CHOOSE e \in i..Len(name) :
                          /\ \A x \in i..e : name[x] # " "
                          /\ (e = Len(name) \/ name[e + 1] = " ")
            IN  SubSeq(name, i, end)
    IN  Cardinality({i \in starts : WordAt(i) \in LowerWords(query)})

(* len(query_words.intersection(scheme_name_words)) *)
NameOverlap(query, doc) ==
    Cardinality(LowerWords(query) \cap LowerWords(MetaGet(doc.metadata, "scheme_name")[2]))

(* A variant of the scheme entry whose boost is 0.1 for any overlap, *)
(* however many words are shared                                     *)
SchemeInfoFlatBoost(doc, similarity_score, query) ==
    [scheme_id |-> MetaGet(doc.metadata, "scheme_id"),
     scheme_name |-> MetaGet(doc.metadata, "scheme_name"),
     category |-> MetaGet(doc.metadata, "category"),
     state |-> MetaGet(doc.metadata, "state_name"),
     ministry |-> MetaGet(doc.metadata, "implementing_ministry"),
     description |-> Description(doc.content),
     relevance_score |->
        IF NameOverlap(query, doc) > 0 THEN similarity_score + 10 ELSE similarity_score,
     similarity_score |-> similarity_score]

(* A variant of the scheme entry without the boost: the relevance is the *)
(* similarity                                                            *)
SchemeInfoNoBoost(doc, similarity_score, query) ==
    [scheme_id |-> MetaGet(doc.metadata, "scheme_id"),
     scheme_name |-> MetaGet(doc.metadata, "scheme_name"),
     category |-> MetaGet(doc.metadata, "category"),
     state |-> MetaGet(doc.metadata, "state_name"),
     ministry |-> MetaGet(doc.metadata, "implementing_ministry"),
     description |-> Description(doc.content),
     relevance_score |-> similarity_score,
     similarity_score |-> similarity_score]

(* scores are held in hundredths: 0.1 is 10 *)
SchemeInfo(doc, similarity_score, query) ==
    [scheme_id |-> MetaGet(doc.metadata, "scheme_id"),
     scheme_name |-> MetaGet(doc.metadata, "scheme_name"),
     category |-> MetaGet(doc.metadata, "category"),
     state |-> MetaGet(doc.metadata, "state_name"),
     ministry |-> MetaGet(doc.metadata, "implementing_ministry"),
     description |-> Description(doc.content),
     relevance_score |->
        IF NameOverlap(query, doc) > 0
        THEN similarity_score + 10 * NameOverlap(query, doc)
        ELSE similarity_score,
     similarity_score |-> similarity_score]

(* A variant of the sort step that puts an element before the elements *)
(* of equal key that precede it                                        *)
SortInsertBeforeEquals(sorted, x) ==
    LET n == Cardinality({i \in 1..Len(sorted) :
                            sorted[i].relevance_score > x.relevance_score})
    IN  SubSeq(sorted, 1, n) \o <<x>> \o SubSeq(sorted, n + 1, Len(sorted))

(* list.sort(key=relevance_score, reverse=True): a stable sort, which    *)
(* puts an element behind the elements of no smaller key that precede it *)
SortInsert(sorted, x) ==
    LET n == Cardinality({i \in 1..Len(sorted) :
                            sorted[i].relevance_score >= x.relevance_score})
    IN  SubSeq(sorted, 1, n) \o <<x>> \o SubSeq(sorted, n + 1, Len(sorted))

RECURSIVE SortByRelevance(_)
SortByRelevance(schemes) ==
    IF schemes = <<>>
    THEN <<>>
    ELSE SortInsert(SortByRelevance(SubSeq(schemes, 1, Len(schemes) - 1)),
                    schemes[Len(schemes)])

_rank_schemes_by_relevance(schemes, query) ==
    SortByRelevance([i \in 1..Len(schemes) |->
                        SchemeInfo(schemes[i].doc, schemes[i].score, query)])

----------------------------------------------------------------------------
(* GovernmentSchemeRAG._generate_response.  A response is held as the     *)
(* values its text is formatted from.                                     *)

_generate_fallback_response(query, relevant_schemes) ==
    IF relevant_schemes = <<>>
    THEN <<"no_schemes", <<>>>>
    ELSE <<"fallback",
           <<query,
             [i \in 1..Min(3, Len(relevant_schemes)) |->
                <<relevant_schemes[i].scheme_name, relevant_schemes[i].category,
                  relevant_schemes[i].state, relevant_schemes[i].ministry,
                  SubSeq(relevant_schemes[i].description, 1,
                         Min(200, Len(relevant_schemes[i].description)))>>],
             Len(relevant_schemes) > 3>>>>

(* the text the chat model answers with is not fixed by the program *)
ChatAnswers == {<<"chat", <<"answer">>>>}

(* the outcomes of _generate_response: the chat model's answer, or the   *)
(* fallback when the engine is offline or the chat call fails            *)
_generate_response(enabled, query, relevant_schemes) ==
    IF ~enabled
    THEN {_generate_fallback_response(query, relevant_schemes)}
    ELSE ChatAnswers \cup {_generate_fallback_response(query, relevant_schemes)}

----------------------------------------------------------------------------
(* GovernmentSchemeRAG._get_query_embedding: offline a random vector,     *)
(* online the embedding service's vector, or None when the call fails     *)

_get_query_embedding(enabled) ==
    IF ~enabled THEN QueryVectors ELSE QueryVectors \cup {NoEmbedding}

----------------------------------------------------------------------------
(* GovernmentSchemeRAG.query: cache key, confidence score *)

(* str(v) / repr(v) of a filter value, a dict or None *)
RECURSIVE PyRepr(_)
PyRepr(v) ==
    IF v[1] = "none" THEN <<"N","o","n","e">>
    ELSE IF v[1] = "str" THEN <<"'">> \o v[2] \o <<"'">>
    ELSE IF v[1] = "int" THEN IntToStr(v[2])
    ELSE IF v[1] = "list"
         THEN LET RECURSIVE Items(_)
                  Items(i) ==
                      IF i > Len(v[2]) THEN <<>>
                      ELSE (IF i > 1 THEN <<",", " ">> ELSE <<>>)
                               \o PyRepr(v[2][i]) \o Items(i + 1)
              IN  <<"[">> \o Items(1) \o <<"]">>
    ELSE LET RECURSIVE Entries(_)
             Entries(i) ==
                 IF i > Len(v[2]) THEN <<>>
                 ELSE (IF i > 1 THEN <<",", " ">> ELSE <<>>)
                          \o <<"'", v[2][i][1], "'", ":", " ">>
                          \o PyRepr(v[2][i][2]) \o Entries(i + 1)
         IN  <<"{">> \o Entries(1) \o <<"}">>

(* f"{user_query}_{max_schemes}_{str(additional_filters)}" *)
CacheKey(user_query, max_schemes, additional_filters) ==
    user_query \o <<"_">> \o IntToStr(max_schemes) \o <<"_">> \o PyRepr(additional_filters)

RECURSIVE SumSimilarity(_)
SumSimilarity(schemes) ==
    IF schemes = <<>> THEN 0
    ELSE schemes[1].similarity_score + SumSimilarity(Tail(schemes))

(* sum(top_scores) / len(top_scores) over relevant_schemes[:3], held in  *)
(* six-hundredths, so that the division by 1, 2 or 3 is exact            *)
ConfidenceScore(relevant_schemes) ==
    IF relevant_schemes = <<>>
    THEN 0
    ELSE LET top == SubSeq(relevant_schemes, 1, Min(3, Len(relevant_schemes)))
         IN  (SumSimilarity(top) * 6) \div Len(top)

QueryResult(query, response, relevant_schemes, confidence_score, processing_time, metadata) ==
    [query |-> query, response |-> response, relevant_schemes |-> relevant_schemes,
     confidence_score |-> confidence_score, processing_time |-> processing_time,
     metadata |-> metadata]

----------------------------------------------------------------------------
(* More bounds and inputs of the model *)

(* the seconds one Tick lets pass *)
TickSeconds == 1800

MaxClock == 3600

(* the entries the cache may hold *)
MaxCache == 1

cache_timeout == 3600

(* additional_filters of a query *)
CategoryEducation == DictV(<< <<"category", StrV(sEducationLower)>> >>)

SchemeNameLoan == DictV(<< <<"scheme_name", StrV(sLoan)>> >>)

CategoryAgriculture == DictV(<< <<"category", StrV(sAgriculture)>> >>)

(* the calls of query the model makes: user_query, max_schemes, additional_filters *)
QueryInputs ==
    {<<qFarmerSupport, 1, PyNone>>,
     <<qFarmerSupport, 2, PyNone>>,
     <<qLoanScheme, 2, PyNone>>,
     <<qFarmerSupport, 2, CategoryEducation>>,
     <<qLoanScheme, 1, CategoryEducation>>,
     <<qFarmerSupport, 2, SchemeNameLoan>>}

(* the cache key of each query of the model *)
(* queries that ask for more schemes than three, put to a store of four *)
WideInputs ==
    {<<qLoanLoanSupport, 4, PyNone>>, <<qLoanLoanSupport, 3, PyNone>>,
     <<qLoanScheme, 4, PyNone>>, <<qFarmerSupport, 4, PyNone>>,
     <<qLoanScheme, 4, SchemeNameLoan>>}

(* "farmer support" asked with the category given by the caller, for one *)
(* scheme, for two and for the default of ten                            *)
ScenarioInputs ==
    {<<qFarmerSupport, 1, CategoryAgriculture>>, <<qFarmerSupport, 2, CategoryAgriculture>>,
     <<qFarmerSupport, 10, CategoryAgriculture>>}

CacheKeys ==
    [a \in QueryInputs \cup WideInputs \cup ScenarioInputs |-> CacheKey(a[1], a[2], a[3])]

(* the filters extracted from each query text of the model *)
ExtractedFilters == [q \in QueryTexts |-> _extract_query_filters(q)]

(* filters of a direct search *)
SearchFilters ==
    {PyNone,
     DictV(<<>>),
     DictV(<< <<"category", StrV(sEducation)>> >>),
     DictV(<< <<"category", ListV(<<StrV(sAgriculture), StrV(sHealth)>>)>> >>),
     DictV(<< <<"scheme_name", StrV(sLoan)>>, <<"category", StrV(sAgricultureLower)>> >>)}

(* a persisted store of four documents *)
WideDocuments == <<DocB, DocA, DocC, DocD>>

(* the store a persisted artifact holds, when there is one *)
SavedDocuments == <<DocB, DocA>>

----------------------------------------------------------------------------
(* State *)

VARIABLES
    documents,       \* VectorStore.documents
    index,           \* the vectors of VectorStore.index, in insertion order
    id_to_doc,       \* VectorStore.id_to_doc
    openai_enabled,  \* GovernmentSchemeRAG.openai_enabled
    loaded,          \* whether __init__ found the artifact and loaded it
    query_cache,     \* GovernmentSchemeRAG.query_cache: key -> (result, timestamp)
    clock,           \* time.time()
    last,            \* the last call made: its arguments, outcome and the steps it ran
    tracked,         \* the last query call that ran the whole pipeline: key, time of call, result
    disk,            \* the two files save() writes and load() reads: .faiss and .pkl
    threads          \* the query calls in progress, one per thread

vars ==
    <<documents, index, id_to_doc, openai_enabled, loaded, query_cache, clock, last, tracked,
      disk, threads>>

store == <<documents, index, id_to_doc>>

Call(op, args, raised, value, steps, inner) ==
    [op |-> op, args |-> args, raised |-> raised, value |-> value, steps |-> steps,
     inner |-> inner]

NoCall == Call("none", <<>>, FALSE, <<>>, {}, <<>>)

NoTracked == [key |-> <<>>, time |-> 0, value |-> <<>>]

(* a file that is not there, and a file that cannot be read back *)
Absent == <<"absent">>

Unreadable == <<"unreadable">>

(* the .faiss file faiss.write_index writes for the vectors, and the .pkl *)
(* file pickle.dump writes for the list of (id, content, metadata)        *)
FaissFile(vectors) == <<"faiss", vectors>>

DocsData(docs) ==
    [i \in 1..Len(docs) |->
        [id |-> docs[i].id, content |-> docs[i].content, metadata |-> docs[i].metadata]]

PklFile(docs) == <<"pkl", DocsData(docs)>>

(* no store was saved, or the files on disk are not those of one save *)
NoSource == <<"none">>

NoArtifacts == [faiss |-> Absent, pkl |-> Absent, source |-> NoSource]

(* the files a completed save() of the store leaves; source keeps the *)
(* store they were written from                                       *)
Artifacts(vectors, docs) ==
    [faiss |-> FaissFile(vectors), pkl |-> PklFile(docs),
     source |-> <<"store", vectors, docs>>]

SourceIndex(files) == files.source[2]

SourceDocuments(files) == files.source[3]

NoThreads == <<>>

(* the document list without the embeddings, as save() writes it and load() reads it *)
Stripped(docs) == [i \in 1..Len(docs) |-> [docs[i] EXCEPT !.embedding = NoEmbedding]]

IdMap(docs) ==
    [id \in {docs[i].id : i \in 1..Len(docs)} |->
        docs[CHOOSE i \in 1..Len(docs) :
                /\ docs[i].id = id
                /\ \A j \in (i + 1)..Len(docs) : docs[j].id # id]]

(* GovernmentSchemeRAG.__init__: an empty store, replaced by the persisted *)
(* one when the .faiss artifact exists; an empty cache                     *)
Init ==
    /\ openai_enabled \in BOOLEAN
    /\ loaded \in BOOLEAN
    /\ documents = IF loaded THEN Stripped(SavedDocuments) ELSE <<>>
    /\ index = IF loaded
               THEN [i \in 1..Len(SavedDocuments) |-> Normalize(SavedDocuments[i].embedding)]
               ELSE <<>>
    /\ id_to_doc = IF loaded THEN IdMap(Stripped(SavedDocuments)) ELSE <<>>
    /\ query_cache = <<>>
    /\ clock = 0
    /\ last = NoCall
    /\ tracked = NoTracked
    /\ disk = IF loaded
              THEN Artifacts([i \in 1..Len(SavedDocuments) |-> Normalize(SavedDocuments[i].embedding)],
                             SavedDocuments)
              ELSE NoArtifacts
    /\ threads = NoThreads

----------------------------------------------------------------------------
(* VectorStore operations *)

DocNoEmbedding ==
    SchemeDocument("E", <<"e">>, [category |-> StrV(sHealth)], NoEmbedding)

(* documents whose embedding has not the length the store was made for *)
DocShort ==
    SchemeDocument("S", <<"s">>, [category |-> StrV(sHealth)], <<5>>)

DocLong ==
    SchemeDocument("T", <<"t">>, [category |-> StrV(sEducation)], <<3, 4, 12>>)

(* VectorStore.embedding_dim, the d of faiss.IndexFlatIP(embedding_dim) *)
embedding_dim == 2

(* index.add(x) takes a matrix whose rows have the length of the index: *)
(* the call raises AssertionError on any other                          *)
IndexAccepts(rows) == \A i \in 1..Len(rows) : Len(rows[i]) = embedding_dim

(* add_document(doc): raises ValueError for a document without embedding; *)
(* index.add raises for a vector of another length than the index's;     *)
(* else the normalized vector is added to the index and the document to  *)
(* the list and to the id map                                            *)
add_document(doc) ==
    /\ Len(documents) < MaxDocs
    /\ Len(index) < MaxDocs
    /\ doc.id \notin DOMAIN id_to_doc
    /\ IF doc.embedding = NoEmbedding
       THEN /\ last' = Call("add_document", doc, TRUE, "ValueError", {}, <<>>)
            /\ UNCHANGED store
       ELSE IF ~IndexAccepts(<<doc.embedding>>)
       THEN /\ last' = Call("add_document", doc, TRUE, "AssertionError", {}, <<>>)
            /\ UNCHANGED store
       ELSE /\ index' = Append(index, Normalize(doc.embedding))
            /\ documents' = Append(documents, doc)
            /\ id_to_doc' = (doc.id :> doc) @@ id_to_doc
            /\ last' = Call("add_document", doc, FALSE, <<>>, {}, <<>>)
    /\ UNCHANGED <<openai_enabled, loaded, disk, threads, query_cache, clock, tracked>>

AddDocument ==
    \E doc \in DocPool \cup {DocNoEmbedding, DocShort, DocLong} : add_document(doc)

(* the lists add_documents is called with *)
DocBatches ==
    {<<DocC, DocD>>, <<DocB>>, <<DocLong>>, <<DocA, DocLong>>, <<DocShort, DocB>>,
     <<DocB, DocNoEmbedding>>, <<DocLong, DocNoEmbedding>>, <<>>}

(* np.vstack(embeddings): raises ValueError for an empty list and for *)
(* vectors of different lengths                                       *)
VstackAccepts(embeddings) ==
    /\ embeddings # <<>>
    /\ \A i \in 1..Len(embeddings) : Len(embeddings[i]) = Len(embeddings[1])

RECURSIVE IdMapUpdate(_, _)
IdMapUpdate(map, docs) ==
    IF docs = <<>> THEN map
    ELSE IdMapUpdate((docs[1].id :> docs[1]) @@ map, Tail(docs))

(* A variant of add_documents that stores the documents before it hands *)
(* the vectors to the index                                             *)
AddDocumentsStoringFirst(docs) ==
    /\ Len(documents) + Len(docs) <= MaxDocs
    /\ Len(index) + Len(docs) <= MaxDocs
    /\ \A i \in 1..Len(docs) : docs[i].id \notin DOMAIN id_to_doc
    /\ LET embeddings == [i \in 1..Len(docs) |-> docs[i].embedding] IN
       IF \E i \in 1..Len(docs) : docs[i].embedding = NoEmbedding
       THEN /\ last' = Call("add_documents", docs, TRUE, "ValueError", {}, <<>>)
            /\ UNCHANGED store
       ELSE /\ documents' = documents \o docs
            /\ id_to_doc' = IdMapUpdate(id_to_doc, docs)
            /\ IF ~VstackAccepts(embeddings)
               THEN /\ last' = Call("add_documents", docs, TRUE, "ValueError", {}, <<>>)
                    /\ index' = index
               ELSE IF ~IndexAccepts(embeddings)
               THEN /\ last' = Call("add_documents", docs, TRUE, "AssertionError", {}, <<>>)
                    /\ index' = index
               ELSE /\ index' = index \o [i \in 1..Len(docs) |-> Normalize(embeddings[i])]
                    /\ last' = Call("add_documents", docs, FALSE, <<>>, {}, <<>>)
    /\ UNCHANGED <<openai_enabled, loaded, disk, threads, query_cache, clock, tracked>>

(* the documents of a list that have an embedding of the index's length *)
RECURSIVE GoodDocs(_)
GoodDocs(docs) ==
    IF docs = <<>> THEN <<>>
    ELSE IF docs[1].embedding # NoEmbedding /\ IndexAccepts(<<docs[1].embedding>>)
         THEN <<docs[1]>> \o GoodDocs(Tail(docs))
         ELSE GoodDocs(Tail(docs))

(* A variant of add_documents that leaves out the documents it cannot *)
(* add and adds the others                                            *)
AddDocumentsSkippingBad(docs) ==
    /\ Len(documents) + Len(docs) <= MaxDocs
    /\ Len(index) + Len(docs) <= MaxDocs
    /\ \A i \in 1..Len(docs) : docs[i].id \notin DOMAIN id_to_doc
    /\ LET good == GoodDocs(docs) IN
       /\ index' = index \o [i \in 1..Len(good) |-> Normalize(good[i].embedding)]
       /\ documents' = documents \o good
       /\ id_to_doc' = IdMapUpdate(id_to_doc, good)
       /\ last' = Call("add_documents", docs, FALSE, <<>>, {}, <<>>)
    /\ UNCHANGED <<openai_enabled, loaded, disk, threads, query_cache, clock, tracked>>

(* add_documents(docs): raises ValueError at the first document without *)
(* embedding; np.vstack and index.add raise for vectors they do not     *)
(* take; only then are the documents appended to the list and put into  *)
(* the id map                                                           *)
add_documents(docs) ==
    /\ Len(documents) + Len(docs) <= MaxDocs
    /\ Len(index) + Len(docs) <= MaxDocs
    /\ \A i \in 1..Len(docs) : docs[i].id \notin DOMAIN id_to_doc
    /\ LET embeddings == [i \in 1..Len(docs) |-> docs[i].embedding] IN
       IF \E i \in 1..Len(docs) : docs[i].embedding = NoEmbedding
       THEN /\ last' = Call("add_documents", docs, TRUE, "ValueError", {}, <<>>)
            /\ UNCHANGED store
       ELSE IF ~VstackAccepts(embeddings)
       THEN /\ last' = Call("add_documents", docs, TRUE, "ValueError", {}, <<>>)
            /\ UNCHANGED store
       ELSE IF ~IndexAccepts(embeddings)
       THEN /\ last' = Call("add_documents", docs, TRUE, "AssertionError", {}, <<>>)
            /\ UNCHANGED store
       ELSE /\ index' = index \o [i \in 1..Len(docs) |-> Normalize(embeddings[i])]
            /\ documents' = documents \o docs
            /\ id_to_doc' = IdMapUpdate(id_to_doc, docs)
            /\ last' = Call("add_documents", docs, FALSE, <<>>, {}, <<>>)
    /\ UNCHANGED <<openai_enabled, loaded, disk, threads, query_cache, clock, tracked>>

AddDocuments == \E docs \in DocBatches : add_documents(docs)

(* VectorStore.__init__: an empty index, an empty list, an empty id map *)
NewStore ==
    /\ index' = <<>>
    /\ documents' = <<>>
    /\ id_to_doc' = <<>>
    /\ last' = Call("__init__", <<>>, FALSE, <<>>, {}, <<>>)
    /\ UNCHANGED <<openai_enabled, loaded, disk, threads, query_cache, clock, tracked>>

(* save(): faiss.write_index writes the .faiss file, then the .pkl file is *)
(* opened for writing and pickle.dump writes the list of (id, content,    *)
(* metadata).  The dump may raise (a metadata value that cannot be        *)
(* pickled, a full disk): the .faiss file is written by then and the .pkl *)
(* file, truncated at open, cannot be read back                           *)
save ==
    /\ \/ /\ disk' = Artifacts(index, documents)
          /\ last' = Call("save", <<>>, FALSE, <<>>, {}, <<>>)
       \/ /\ disk' = [faiss |-> FaissFile(index), pkl |-> Unreadable, source |-> NoSource]
          /\ last' = Call("save", <<>>, TRUE, "PicklingError", {}, <<>>)
    /\ UNCHANGED <<store, openai_enabled, loaded, threads, query_cache, clock, tracked>>

(* the documents load() makes of the unpickled list: none has an embedding *)
Restored(docs_data) ==
    [i \in 1..Len(docs_data) |->
        SchemeDocument(docs_data[i].id, docs_data[i].content, docs_data[i].metadata,
                       NoEmbedding)]

(* A variant of load that puts the documents back newest first *)
LoadNewestFirst ==
    /\ index' = IF disk.faiss # Absent THEN disk.faiss[2] ELSE index
    /\ IF disk.pkl = Absent
       THEN /\ UNCHANGED <<documents, id_to_doc>>
            /\ last' = Call("load", [held |-> Len(documents)], FALSE, <<>>, {}, <<>>)
       ELSE IF disk.pkl = Unreadable
       THEN /\ UNCHANGED <<documents, id_to_doc>>
            /\ last' = Call("load", [held |-> Len(documents)], TRUE, "UnpicklingError",
                            {}, <<>>)
       ELSE /\ documents' = [i \in 1..Len(disk.pkl[2]) |->
                                Restored(disk.pkl[2])[Len(disk.pkl[2]) + 1 - i]]
            /\ id_to_doc' = IdMap(Restored(disk.pkl[2]))
            /\ last' = Call("load", [held |-> Len(documents)], FALSE, <<>>, {}, <<>>)
    /\ UNCHANGED <<openai_enabled, loaded, disk, threads, query_cache, clock, tracked>>

(* load(): the index is replaced when the .faiss file exists; then the    *)
(* document list and the id map are rebuilt when the .pkl file exists,    *)
(* and pickle.load raises on a file it cannot read.  held records how     *)
(* many documents the store held at the call                              *)
load ==
    /\ index' = IF disk.faiss # Absent THEN disk.faiss[2] ELSE index
    /\ IF disk.pkl = Absent
       THEN /\ UNCHANGED <<documents, id_to_doc>>
            /\ last' = Call("load", [held |-> Len(documents)], FALSE, <<>>, {}, <<>>)
       ELSE IF disk.pkl = Unreadable
       THEN /\ UNCHANGED <<documents, id_to_doc>>
            /\ last' = Call("load", [held |-> Len(documents)], TRUE, "UnpicklingError",
                            {}, <<>>)
       ELSE /\ documents' = Restored(disk.pkl[2])
            /\ id_to_doc' = IdMap(Restored(disk.pkl[2]))
            /\ last' = Call("load", [held |-> Len(documents)], FALSE, <<>>, {}, <<>>)
    /\ UNCHANGED <<openai_enabled, loaded, disk, threads, query_cache, clock, tracked>>

(* a call of VectorStore.search *)
Search ==
    \E q \in QueryVectors, k \in 1..MaxK, filters \in SearchFilters :
        \E out \in search(index, documents, q, k, filters) :
            /\ last' = Call("search",
                            [query_embedding |-> q, k |-> k, filters |-> filters],
                            out.raised, out.results, {"search"}, out)
            /\ UNCHANGED <<store, openai_enabled, loaded, disk, threads, query_cache, clock, tracked>>

(* a call of search_by_category, search_by_state or search_by_ministry *)
SearchBy ==
    \E q \in QueryVectors, k \in 1..MaxK,
       by \in {"category", "state_name", "implementing_ministry"},
       text \in {sAgricultureLower, sKerala} :
        \E out \in (IF by = "category"
                    THEN search_by_category(index, documents, q, StrV(text), k)
                    ELSE IF by = "state_name"
                         THEN search_by_state(index, documents, q, StrV(text), k)
                         ELSE search_by_ministry(index, documents, q, StrV(text), k)) :
            /\ last' = Call("search_by",
                            [query_embedding |-> q, k |-> k,
                             filters |-> DictV(<< <<by, StrV(text)>> >>)],
                            out.raised, out.results, {"search"}, out)
            /\ UNCHANGED <<store, openai_enabled, loaded, disk, threads, query_cache, clock, tracked>>

----------------------------------------------------------------------------
(* GovernmentSchemeRAG.query *)

(* A variant of the test that takes every entry for fresh, whatever its age *)
CacheHitAnyAge(cache_key, now) == cache_key \in DOMAIN query_cache

(* A variant of the test that takes an entry for fresh only in the very *)
(* second it was stored                                                 *)
CacheHitSameInstant(cache_key, now) ==
    /\ cache_key \in DOMAIN query_cache
    /\ now = query_cache[cache_key].timestamp

(* the cached entry is there and younger than cache_timeout *)
CacheHit(cache_key, now) ==
    /\ cache_key \in DOMAIN query_cache
    /\ now - query_cache[cache_key].timestamp < cache_timeout

(* A variant of the merge in which the extracted filters are written over *)
(* the caller's                                                           *)
MergedFiltersInferredWins(user_query, additional_filters) ==
    IF Truthy(additional_filters)
    THEN DictUpdate(additional_filters[2], ExtractedFilters[user_query])
    ELSE ExtractedFilters[user_query]

(* query_filters: the extracted filters, updated with additional_filters *)
MergedFilters(user_query, additional_filters) ==
    IF Truthy(additional_filters)
    THEN DictUpdate(ExtractedFilters[user_query], additional_filters[2])
    ELSE ExtractedFilters[user_query]

QueryArgs(user_query, max_schemes, additional_filters) ==
    [user_query |-> user_query, max_schemes |-> max_schemes,
     additional_filters |-> additional_filters,
     cache_key |-> CacheKeys[<<user_query, max_schemes, additional_filters>>],
     time |-> clock,
     found |-> CacheKeys[<<user_query, max_schemes, additional_filters>>]
                  \in DOMAIN query_cache,
     timestamp |->
        IF CacheKeys[<<user_query, max_schemes, additional_filters>>] \in DOMAIN query_cache
        THEN query_cache[CacheKeys[<<user_query, max_schemes, additional_filters>>]].timestamp
        ELSE 0]

(* A variant of the cache hit that hands the stored result out once: it *)
(* drops the entry it returns                                          *)
QueryCachedEvicting(user_query, max_schemes, additional_filters) ==
    LET cache_key == CacheKeys[<<user_query, max_schemes, additional_filters>>] IN
    /\ CacheHit(cache_key, clock)
    /\ last' = Call("query", QueryArgs(user_query, max_schemes, additional_filters),
                    FALSE, query_cache[cache_key].result, {"cache"}, <<>>)
    /\ query_cache' = [key \in DOMAIN query_cache \ {cache_key} |-> query_cache[key]]
    /\ UNCHANGED <<store, openai_enabled, loaded, disk, threads, clock, tracked>>

(* the cached result is returned; nothing else runs *)
QueryCached(user_query, max_schemes, additional_filters) ==
    LET cache_key == CacheKeys[<<user_query, max_schemes, additional_filters>>] IN
    /\ CacheHit(cache_key, clock)
    /\ last' = Call("query", QueryArgs(user_query, max_schemes, additional_filters),
                    FALSE, query_cache[cache_key].result, {"cache"}, <<>>)
    /\ UNCHANGED <<store, openai_enabled, loaded, disk, threads, query_cache, clock, tracked>>

(* the seconds a call that runs the pipeline takes: the call is one step, *)
(* so time.time() reads the same at its start and at its end              *)
Durations == {0}

(* A variant of the failed embedding that lets the failure out of query *)
QueryNoEmbeddingRaises(user_query, max_schemes, additional_filters) ==
    LET cache_key == CacheKeys[<<user_query, max_schemes, additional_filters>>] IN
    /\ ~CacheHit(cache_key, clock)
    /\ NoEmbedding \in _get_query_embedding(openai_enabled)
    /\ last' = Call("query", QueryArgs(user_query, max_schemes, additional_filters),
                    TRUE, <<>>, {"embed"}, <<>>)
    /\ UNCHANGED <<store, openai_enabled, loaded, disk, threads, query_cache, clock, tracked>>

(* A variant of the failed embedding that caches the error result it *)
(* returns                                                          *)
QueryNoEmbeddingCaching(user_query, max_schemes, additional_filters) ==
    LET cache_key == CacheKeys[<<user_query, max_schemes, additional_filters>>] IN
    /\ ~CacheHit(cache_key, clock)
    /\ cache_key \in DOMAIN query_cache \/ Cardinality(DOMAIN query_cache) < MaxCache
    /\ NoEmbedding \in _get_query_embedding(openai_enabled)
    /\ \E seconds \in Durations :
       \E result \in {QueryResult(user_query, <<"sorry", <<>>>>, <<>>, 0, seconds,
                                  [error |-> "Failed to generate query embedding"])} :
          /\ clock' = clock + seconds
          /\ query_cache' =
                (cache_key :> [result |-> result, timestamp |-> clock + seconds])
                   @@ query_cache
          /\ last' = Call("query", QueryArgs(user_query, max_schemes, additional_filters),
                          FALSE, result, {"embed"}, <<>>)
    /\ UNCHANGED <<store, openai_enabled, loaded, disk, threads, tracked>>

(* the embedding could not be obtained: an error result, nothing cached *)
QueryNoEmbedding(user_query, max_schemes, additional_filters) ==
    LET cache_key == CacheKeys[<<user_query, max_schemes, additional_filters>>] IN
    /\ ~CacheHit(cache_key, clock)
    /\ NoEmbedding \in _get_query_embedding(openai_enabled)
    /\ \E seconds \in Durations :
          /\ clock' = clock + seconds
          /\ last' = Call("query", QueryArgs(user_query, max_schemes, additional_filters),
                          FALSE,
                          QueryResult(user_query, <<"sorry", <<>>>>, <<>>, 0, seconds,
                                      [error |-> "Failed to generate query embedding"]),
                          {"embed"}, <<>>)
    /\ UNCHANGED <<store, openai_enabled, loaded, disk, threads, query_cache, tracked>>

(* the pipeline runs: embedding, filters, search, and then the search    *)
(* raises                                                                *)
QuerySearchRaises(user_query, max_schemes, additional_filters) ==
    \E cache_key \in {CacheKeys[<<user_query, max_schemes, additional_filters>>]},
       query_filters \in {MergedFilters(user_query, additional_filters)} :
    /\ ~CacheHit(cache_key, clock)
    /\ \E query_embedding \in _get_query_embedding(openai_enabled) \ {NoEmbedding} :
       \E out \in search(index, documents, query_embedding, max_schemes,
                         IF query_filters # <<>> THEN DictV(query_filters) ELSE PyNone) :
       \E seconds \in Durations :
          /\ out.raised
          /\ last' = Call("query",
                          QueryArgs(user_query, max_schemes, additional_filters),
                          TRUE, <<>>, {"embed", "search"}, out)
          /\ clock' = clock + seconds
    /\ UNCHANGED <<store, openai_enabled, loaded, disk, threads, query_cache, tracked>>

(* the pipeline runs to its end: embedding, filters, search, ranking,    *)
(* response, confidence; the result is cached                            *)
QueryPipeline(user_query, max_schemes, additional_filters) ==
    \E cache_key \in {CacheKeys[<<user_query, max_schemes, additional_filters>>]},
       query_filters \in {MergedFilters(user_query, additional_filters)} :
    /\ ~CacheHit(cache_key, clock)
    /\ cache_key \in DOMAIN query_cache \/ Cardinality(DOMAIN query_cache) < MaxCache
    /\ \E query_embedding \in _get_query_embedding(openai_enabled) \ {NoEmbedding} :
       \E out \in search(index, documents, query_embedding, max_schemes,
                         IF query_filters # <<>> THEN DictV(query_filters) ELSE PyNone) :
          /\ ~out.raised
          /\ \E relevant_schemes \in {_rank_schemes_by_relevance(out.results, user_query)} :
             \E response \in _generate_response(openai_enabled, user_query, relevant_schemes),
                confidence_score \in {ConfidenceScore(relevant_schemes)},
                seconds \in Durations :
             \E result \in
                   {QueryResult(user_query, response, relevant_schemes,
                                confidence_score, seconds,
                                [filters_applied |-> query_filters,
                                 total_schemes_found |-> Len(relevant_schemes),
                                 openai_enabled |-> openai_enabled])} :
                /\ query_cache' =
                      (cache_key :> [result |-> result, timestamp |-> clock + seconds])
                         @@ query_cache
                /\ clock' = clock + seconds
                /\ last' = Call("query",
                                QueryArgs(user_query, max_schemes, additional_filters),
                                FALSE, result,
                                {"embed", "search", "rank", "respond", "store"}, out)
                /\ tracked' = [key |-> cache_key, time |-> clock, value |-> result]
    /\ UNCHANGED <<store, openai_enabled, loaded, disk, threads>>

query(user_query, max_schemes, additional_filters) ==
    \/ QueryCached(user_query, max_schemes, additional_filters)
    \/ QueryNoEmbedding(user_query, max_schemes, additional_filters)
    \/ QuerySearchRaises(user_query, max_schemes, additional_filters)
    \/ QueryPipeline(user_query, max_schemes, additional_filters)

Query ==
    \E a \in QueryInputs : query(a[1], a[2], a[3])

(* time passes *)
Tick ==
    /\ clock + TickSeconds <= MaxClock
    /\ clock' = clock + TickSeconds
    /\ last' = NoCall
    /\ UNCHANGED <<store, openai_enabled, loaded, disk, threads, query_cache, tracked>>

(* the index is extended behind a running engine *)
ExtendIndex == add_document(DocC)

(* The engine: queries, the passing of time, and a change of the index *)
Next == Query \/ Tick \/ ExtendIndex

Spec == Init /\ [][Next]_vars

(* The engine constructed over a persisted store of four documents, when *)
(* there is one                                                          *)
InitWide ==
    /\ openai_enabled \in BOOLEAN
    /\ loaded \in BOOLEAN
    /\ documents = IF loaded THEN Stripped(WideDocuments) ELSE <<>>
    /\ index = IF loaded
               THEN [i \in 1..Len(WideDocuments) |-> Normalize(WideDocuments[i].embedding)]
               ELSE <<>>
    /\ id_to_doc = IF loaded THEN IdMap(Stripped(WideDocuments)) ELSE <<>>
    /\ query_cache = <<>>
    /\ clock = 0
    /\ last = NoCall
    /\ tracked = NoTracked
    /\ disk = IF loaded
              THEN Artifacts([i \in 1..Len(WideDocuments) |-> Normalize(WideDocuments[i].embedding)],
                             WideDocuments)
              ELSE NoArtifacts
    /\ threads = NoThreads

QueryWide ==
    \E a \in WideInputs : query(a[1], a[2], a[3])

NextWide == QueryWide \/ Tick

SpecWide == InitWide /\ [][NextWide]_vars

(* The engine constructed over a persisted store of the three documents *)
(* A, B and C, each with an embedding of its own                        *)
ScenarioVectors == {<<3, 4>>, <<4, 3>>, <<0, 5>>}

ScenarioDocuments(a, b, c) ==
    <<[DocA EXCEPT !.embedding = a], [DocB EXCEPT !.embedding = b],
      [DocC EXCEPT !.embedding = c]>>

InitScenario ==
    /\ openai_enabled \in BOOLEAN
    /\ loaded \in BOOLEAN
    /\ \E a \in ScenarioVectors, b \in ScenarioVectors, c \in ScenarioVectors :
          IF loaded
          THEN /\ documents = Stripped(ScenarioDocuments(a, b, c))
               /\ index = <<Normalize(a), Normalize(b), Normalize(c)>>
               /\ id_to_doc = IdMap(Stripped(ScenarioDocuments(a, b, c)))
               /\ disk = Artifacts(<<Normalize(a), Normalize(b), Normalize(c)>>,
                                   ScenarioDocuments(a, b, c))
          ELSE /\ documents = <<>>
               /\ index = <<>>
               /\ id_to_doc = <<>>
               /\ disk = NoArtifacts
    /\ query_cache = <<>>
    /\ clock = 0
    /\ last = NoCall
    /\ tracked = NoTracked
    /\ threads = NoThreads

QueryScenario ==
    \E a \in ScenarioInputs : query(a[1], a[2], a[3])

NextScenario == QueryScenario \/ Tick

SpecScenario == InitScenario /\ [][NextScenario]_vars

(* The engine serving: queries of the engine and searches of its store, *)
(* over the persisted store of four documents                           *)
ServeInputs == {<<qLoanScheme, 4, PyNone>>, <<qFarmerSupport, 4, PyNone>>}

(* A variant of the search that moves the document of its first result *)
(* to the front of the store                                           *)
SearchServeMovingToFront ==
    \E q \in QueryVectors, k \in {1, 4}, filters \in {PyNone, CategoryAgriculture} :
        \E out \in search(index, documents, q, k, filters) :
            /\ last' = Call("search",
                            [query_embedding |-> q, k |-> k, filters |-> filters],
                            out.raised, out.results, {"search"}, out)
            /\ IF out.results = <<>>
               THEN UNCHANGED <<documents, index>>
               ELSE \E p \in {out.results[1].pos + 1} :
                      /\ documents' = <<documents[p]>> \o SubSeq(documents, 1, p - 1)
                                          \o SubSeq(documents, p + 1, Len(documents))
                      /\ index' = <<index[p]>> \o SubSeq(index, 1, p - 1)
                                      \o SubSeq(index, p + 1, Len(index))
            /\ UNCHANGED <<id_to_doc, openai_enabled, loaded, disk, threads, query_cache,
                           clock, tracked>>

SearchServe ==
    \E q \in QueryVectors, k \in {1, 4}, filters \in {PyNone, CategoryAgriculture} :
        \E out \in search(index, documents, q, k, filters) :
            /\ last' = Call("search",
                            [query_embedding |-> q, k |-> k, filters |-> filters],
                            out.raised, out.results, {"search"}, out)
            /\ UNCHANGED <<store, openai_enabled, loaded, disk, threads, query_cache, clock, tracked>>

QueryServe ==
    \E a \in ServeInputs : query(a[1], a[2], a[3])

NextServe == QueryServe \/ SearchServe \/ Tick

SpecServe == InitWide /\ [][NextServe]_vars

(* Concurrent calls of query on one engine.  Each thread makes one call; *)
(* a thread is at a place of the code of query, holding the locals it   *)
(* has assigned so far.  The store is not written while the calls run,  *)
(* so what a call reads of it between two accesses of the cache is read *)
(* in one step.  A test, a read and an assignment of the dict are each  *)
(* one step.                                                            *)
Threads == {1, 2}

(* a thread before its call *)

IdleThread ==
    [pc |-> "idle", input |-> <<>>, cache_key |-> <<>>, start_time |-> 0, found |-> FALSE,
     raised |-> FALSE, value |-> <<>>, steps |-> {}, seq |-> 0]

InitConcurrent ==
    /\ openai_enabled \in BOOLEAN
    /\ loaded \in BOOLEAN
    /\ documents = IF loaded THEN Stripped(SavedDocuments) ELSE <<>>
    /\ index = IF loaded
               THEN [i \in 1..Len(SavedDocuments) |-> Normalize(SavedDocuments[i].embedding)]
               ELSE <<>>
    /\ id_to_doc = IF loaded THEN IdMap(Stripped(SavedDocuments)) ELSE <<>>
    /\ query_cache = <<>>
    /\ clock = 0
    /\ last = NoCall
    /\ tracked = NoTracked
    /\ disk = IF loaded
              THEN Artifacts([i \in 1..Len(SavedDocuments) |-> Normalize(SavedDocuments[i].embedding)],
                             SavedDocuments)
              ELSE NoArtifacts
    /\ threads = [t \in Threads |-> IdleThread]

(* what a call that returned leaves in last *)
ThreadReturned(t, th) ==
    Call("query",
         [thread |-> t, user_query |-> th.input[1], max_schemes |-> th.input[2],
          additional_filters |-> th.input[3], cache_key |-> th.cache_key,
          time |-> th.start_time, found |-> th.found],
         th.raised, th.value, th.steps, <<>>)

(* query is entered: start_time, the cache key, and the test           *)
(* 'cache_key in self.query_cache'                                     *)
ThreadCall(t) ==
    /\ threads[t].pc = "idle"
    /\ \E a \in ServeInputs :
       \E cache_key \in {CacheKeys[a]} :
          threads' = [threads EXCEPT ![t] =
                         [@ EXCEPT !.pc = IF cache_key \in DOMAIN query_cache
                                          THEN "read" ELSE "embed",
                                   !.input = a,
                                   !.cache_key = cache_key,
                                   !.start_time = clock,
                                   !.found = cache_key \in DOMAIN query_cache]]
    /\ UNCHANGED <<store, openai_enabled, loaded, disk, query_cache, clock, last, tracked>>

(* the entry is read and its age tested: a fresh entry is returned *)
ThreadRead(t) ==
    /\ threads[t].pc = "read"
    /\ \E entry \in {query_cache[threads[t].cache_key]} :
          IF clock - entry.timestamp < cache_timeout
          THEN \E th \in {[threads[t] EXCEPT !.pc = "done", !.value = entry.result,
                                             !.steps = {"cache"}]} :
                  /\ threads' = [threads EXCEPT ![t] = th]
                  /\ last' = ThreadReturned(t, th)
          ELSE /\ threads' = [threads EXCEPT ![t].pc = "embed"]
               /\ UNCHANGED last
    /\ UNCHANGED <<store, openai_enabled, loaded, disk, query_cache, clock, tracked>>

(* the embedding could not be obtained: the error result is returned *)
ThreadNoEmbedding(t) ==
    /\ threads[t].pc = "embed"
    /\ NoEmbedding \in _get_query_embedding(openai_enabled)
    /\ \E th \in {[threads[t] EXCEPT
                       !.pc = "done",
                       !.value = QueryResult(threads[t].input[1], <<"sorry", <<>>>>, <<>>, 0,
                                             clock - threads[t].start_time,
                                             [error |-> "Failed to generate query embedding"]),
                       !.steps = {"embed"}]} :
          /\ threads' = [threads EXCEPT ![t] = th]
          /\ last' = ThreadReturned(t, th)
    /\ UNCHANGED <<store, openai_enabled, loaded, disk, query_cache, clock, tracked>>

(* the search raises, and so does query *)
ThreadSearchRaises(t) ==
    /\ threads[t].pc = "embed"
    /\ \E query_filters \in {MergedFilters(threads[t].input[1], threads[t].input[3])} :
       \E query_embedding \in _get_query_embedding(openai_enabled) \ {NoEmbedding} :
       \E out \in search(index, documents, query_embedding, threads[t].input[2],
                         IF query_filters # <<>> THEN DictV(query_filters) ELSE PyNone) :
          /\ out.raised
          /\ \E th \in {[threads[t] EXCEPT !.pc = "done", !.raised = TRUE,
                                             !.steps = {"embed", "search"}]} :
                /\ threads' = [threads EXCEPT ![t] = th]
                /\ last' = ThreadReturned(t, th)
    /\ UNCHANGED <<store, openai_enabled, loaded, disk, query_cache, clock, tracked>>

(* embedding, filters, search, ranking, response, confidence and the *)
(* QueryResult                                                       *)
ThreadPipeline(t) ==
    /\ threads[t].pc = "embed"
    /\ \E query_filters \in {MergedFilters(threads[t].input[1], threads[t].input[3])} :
       \E query_embedding \in _get_query_embedding(openai_enabled) \ {NoEmbedding} :
       \E out \in search(index, documents, query_embedding, threads[t].input[2],
                         IF query_filters # <<>> THEN DictV(query_filters) ELSE PyNone) :
          /\ ~out.raised
          /\ \E relevant_schemes \in
                   {_rank_schemes_by_relevance(out.results, threads[t].input[1])} :
             \E response \in _generate_response(openai_enabled, threads[t].input[1],
                                                relevant_schemes) :
                threads' = [threads EXCEPT ![t] =
                               [@ EXCEPT
                                  !.pc = "store",
                                  !.value =
                                     QueryResult(threads[t].input[1], response,
                                                 relevant_schemes,
                                                 ConfidenceScore(relevant_schemes),
                                                 clock - threads[t].start_time,
                                                 [filters_applied |-> query_filters,
                                                  total_schemes_found |-> Len(relevant_schemes),
                                                  openai_enabled |-> openai_enabled]),
                                  !.steps = {"embed", "search", "rank", "respond"}]]
    /\ UNCHANGED <<store, openai_enabled, loaded, disk, query_cache, clock, last, tracked>>

(* the stores made so far *)
StoresMade == Cardinality({u \in Threads : threads[u].seq > 0})

(* A variant of the store that keeps an entry that is already there *)
ThreadStoreFirstWins(t) ==
    /\ threads[t].pc = "store"
    /\ \E th \in {[threads[t] EXCEPT !.pc = "done", !.steps = @ \cup {"store"},
                                       !.seq = StoresMade + 1]} :
          /\ query_cache' =
                IF th.cache_key \in DOMAIN query_cache
                THEN query_cache
                ELSE (th.cache_key :> [result |-> th.value, timestamp |-> clock]) @@ query_cache
          /\ threads' = [threads EXCEPT ![t] = th]
          /\ last' = ThreadReturned(t, th)
    /\ UNCHANGED <<store, openai_enabled, loaded, disk, clock, tracked>>

(* self.query_cache[cache_key] = (result, time.time()), and the return *)
ThreadStore(t) ==
    /\ threads[t].pc = "store"
    /\ \E th \in {[threads[t] EXCEPT !.pc = "done", !.steps = @ \cup {"store"},
                                       !.seq = StoresMade + 1]} :
          /\ query_cache' =
                (th.cache_key :> [result |-> th.value, timestamp |-> clock]) @@ query_cache
          /\ threads' = [threads EXCEPT ![t] = th]
          /\ last' = ThreadReturned(t, th)
    /\ UNCHANGED <<store, openai_enabled, loaded, disk, clock, tracked>>

(* a step of thread t *)
ThreadStep(t) ==
    \/ ThreadCall(t)
    \/ ThreadRead(t)
    \/ ThreadNoEmbedding(t)
    \/ ThreadSearchRaises(t)
    \/ ThreadPipeline(t)
    \/ ThreadStore(t)

(* the time that may pass while the calls run *)
ConcurrentClock == 1800

(* time passes while the calls run *)
TickConcurrent ==
    /\ clock + TickSeconds <= ConcurrentClock
    /\ clock' = clock + TickSeconds
    /\ UNCHANGED <<store, openai_enabled, loaded, disk, threads, query_cache, last, tracked>>

NextConcurrent == (\E t \in Threads : ThreadStep(t)) \/ TickConcurrent

SpecConcurrent == InitConcurrent /\ [][NextConcurrent]_vars

(* every thread that can take a step is scheduled in the end *)
SpecConcurrentFair == SpecConcurrent /\ \A t \in Threads : WF_vars(ThreadStep(t))

(* The vector store alone, built up from empty and searched *)
InitStore ==
    /\ openai_enabled = FALSE
    /\ loaded = FALSE
    /\ documents = <<>>
    /\ index = <<>>
    /\ id_to_doc = <<>>
    /\ query_cache = <<>>
    /\ clock = 0
    /\ last = NoCall
    /\ tracked = NoTracked
    /\ disk = NoArtifacts
    /\ threads = NoThreads

NextStore == AddDocument \/ AddDocuments \/ Search \/ SearchBy

SpecStore == InitStore /\ [][NextStore]_vars

(* EmbeddingsGenerator: get_embedding and the bulk build *)

MaxRetries == 4

(* what one call of client.embeddings.create does: it returns an *)
(* embedding or it raises                                        *)
ServiceResponses ==
    {[ok |-> TRUE, embedding |-> <<3, 4>>], [ok |-> FALSE, embedding |-> NoEmbedding]}

RECURSIVE Pow2(_)
Pow2(n) == IF n = 0 THEN 1 ELSE 2 * Pow2(n - 1)

(* A variant of the loop whose wait grows by one second with each attempt *)
RECURSIVE AttemptsLinearWait(_, _, _, _)
AttemptsLinearWait(service, retries, attempt, waits) ==
    IF attempt >= retries
    THEN [value |-> NoEmbedding, calls |-> attempt, waits |-> waits]
    ELSE IF service[attempt + 1].ok
         THEN [value |-> service[attempt + 1].embedding, calls |-> attempt + 1,
               waits |-> waits]
         ELSE IF attempt < retries - 1
              THEN AttemptsLinearWait(service, retries, attempt + 1,
                                      Append(waits, attempt + 1))
              ELSE [value |-> NoEmbedding, calls |-> attempt + 1, waits |-> waits]

(* The loop "for attempt in range(retries)" from its turn number attempt *)
(* on: service[i] is what the i-th call of the service does, waits are   *)
(* the seconds slept so far.  A loop that runs out returns None.         *)
RECURSIVE Attempts(_, _, _, _)
Attempts(service, retries, attempt, waits) ==
    IF attempt >= retries
    THEN [value |-> NoEmbedding, calls |-> attempt, waits |-> waits]
    ELSE IF service[attempt + 1].ok
         THEN [value |-> service[attempt + 1].embedding, calls |-> attempt + 1,
               waits |-> waits]
         ELSE IF attempt < retries - 1
              THEN Attempts(service, retries, attempt + 1, Append(waits, Pow2(attempt)))
              ELSE [value |-> NoEmbedding, calls |-> attempt + 1, waits |-> waits]

GetEmbeddingLinearWait(service, retries) == AttemptsLinearWait(service, retries, 0, <<>>)

(* get_embedding(text, retries) against a service that behaves as given *)
get_embedding(service, retries) == Attempts(service, retries, 0, <<>>)

(* a call of get_embedding; time.sleep is recorded in waits *)
GetEmbedding ==
    \E retries \in 0..MaxRetries :
        \E service \in [1..retries -> ServiceResponses] :
            \E run \in {get_embedding(service, retries)} :
                /\ last' = Call("get_embedding", [retries |-> retries, service |-> service],
                                FALSE, run.value, {}, [calls |-> run.calls, waits |-> run.waits])
                /\ UNCHANGED <<store, openai_enabled, loaded, disk, threads, query_cache, clock,
                               tracked>>

(* records of the source dataset *)
SchemeA ==
    [scheme_id |-> StrV(<<"A">>), scheme_name |-> StrV(sFarmerLoanScheme),
     category |-> StrV(sAgriculture)]

SchemeB ==
    [scheme_id |-> StrV(<<"B">>), scheme_name |-> StrV(sStudentScholarship),
     category |-> StrV(sEducation), state_name |-> StrV(sKerala)]

SchemeNoId ==
    [scheme_name |-> StrV(sCropInsurance), category |-> StrV(sAgriculture)]

(* data.get('schemes', []) of the datasets the build is run on *)
Datasets ==
    {<<>>, <<SchemeA>>, <<SchemeA, SchemeB>>, <<SchemeB, SchemeNoId, SchemeA>>}

(* what the service does on the three calls get_embedding(text) makes at *)
(* most for one record                                                   *)
BuildServices ==
    {[i \in 1..3 |-> [ok |-> TRUE, embedding |-> <<3, 4>>]],
     [i \in 1..3 |-> [ok |-> i = 3, embedding |-> IF i = 3 THEN <<3, 4>> ELSE NoEmbedding]],
     [i \in 1..3 |-> [ok |-> FALSE, embedding |-> NoEmbedding]]}

(* _create_scheme_text for a record with none of the optional fields *)
_create_scheme_text(scheme) ==
    <<"S","c","h","e","m","e",":"," ">> \o MetaGet(scheme, "scheme_name")[2]
        \o <<" ","|"," ","C","a","t","e","g","o","r","y",":"," ">> \o MetaGet(scheme, "category")[2]
        \o <<" ","|"," ","M","i","n","i","s","t","r","y",":"," ">> \o MetaGet(scheme, "implementing_ministry")[2]
        \o <<" ","|"," ","S","t","a","t","e",":"," ">> \o MetaGet(scheme, "state_name")[2]

MetadataKeys ==
    {"scheme_id", "scheme_name", "category", "sub_category", "implementing_ministry",
     "implementing_agency", "state_name", "state_capital", "launch_year", "scheme_type",
     "priority_level", "budget_allocation", "state_budget_allocation",
     "beneficiaries_covered", "state_language", "region"}

_extract_metadata(scheme) == [key \in MetadataKeys |-> MetaGet(scheme, key)]

(* the documents made of the records, none with an embedding yet; the id *)
(* is the scheme_id, or "scheme_<n>" for the n documents made before     *)
RECURSIVE BuildDocuments(_, _)
BuildDocuments(schemes, made) ==
    IF schemes = <<>>
    THEN made
    ELSE BuildDocuments(Tail(schemes),
             Append(made,
                 SchemeDocument(
                     IF "scheme_id" \in DOMAIN schemes[1]
                     THEN schemes[1].scheme_id[2]
                     ELSE <<"s","c","h","e","m","e","_">> \o IntToStr(Len(made)),
                     _create_scheme_text(schemes[1]),
                     _extract_metadata(schemes[1]),
                     NoEmbedding)))

(* the documents that got an embedding, each with its own, in order *)
RECURSIVE ValidDocuments(_, _)
ValidDocuments(docs, embeddings) ==
    IF docs = <<>>
    THEN <<>>
    ELSE IF embeddings[1] # NoEmbedding
         THEN <<[docs[1] EXCEPT !.embedding = embeddings[1]]>>
                  \o ValidDocuments(Tail(docs), Tail(embeddings))
         ELSE ValidDocuments(Tail(docs), Tail(embeddings))

(* process_schemes_dataset: documents are made of the records, an         *)
(* embedding is asked for each, the documents that got one are added to a *)
(* new store with add_documents, and the store is saved and returned.     *)
(* The store variables hold the store the call returns.                   *)
process_schemes_dataset(schemes) ==
    \E services \in [1..Len(schemes) -> BuildServices] :
    \E made \in {BuildDocuments(schemes, <<>>)} :
    \E embeddings \in {[i \in 1..Len(schemes) |-> get_embedding(services[i], 3).value]} :
    \E valid_documents \in {ValidDocuments(made, embeddings)} :
    \E vectors \in {[i \in 1..Len(valid_documents) |-> valid_documents[i].embedding]} :
       /\ IF ~VstackAccepts(vectors)
          THEN /\ last' = Call("process_schemes_dataset", [schemes |-> schemes], TRUE,
                               "ValueError", {}, [embeddings |-> embeddings])
               /\ UNCHANGED <<store, disk>>
          ELSE IF ~IndexAccepts(vectors)
          THEN /\ last' = Call("process_schemes_dataset", [schemes |-> schemes], TRUE,
                               "AssertionError", {}, [embeddings |-> embeddings])
               /\ UNCHANGED <<store, disk>>
          ELSE \/ /\ index' = [i \in 1..Len(vectors) |-> Normalize(vectors[i])]
                  /\ documents' = valid_documents
                  /\ id_to_doc' = IdMapUpdate(<<>>, valid_documents)
                  /\ disk' = Artifacts(index', documents')
                  /\ last' = Call("process_schemes_dataset", [schemes |-> schemes], FALSE,
                                  <<>>, {}, [embeddings |-> embeddings])
               \/ /\ disk' = [faiss |-> FaissFile([i \in 1..Len(vectors) |->
                                                      Normalize(vectors[i])]),
                              pkl |-> Unreadable, source |-> NoSource]
                  /\ last' = Call("process_schemes_dataset", [schemes |-> schemes], TRUE,
                                  "PicklingError", {}, [embeddings |-> embeddings])
                  /\ UNCHANGED store
       /\ UNCHANGED <<openai_enabled, loaded, threads, query_cache, clock, tracked>>

ProcessSchemesDataset == \E schemes \in Datasets : process_schemes_dataset(schemes)

NextBuild == GetEmbedding \/ ProcessSchemesDataset

SpecBuild == InitStore /\ [][NextBuild]_vars

(* The vector store with its files: built up, saved, made anew, loaded *)
(* and searched                                                        *)
AddOne == \E doc \in {DocA} : add_document(doc)

AddBatch == \E docs \in {<<DocC, DocD>>, <<DocA, DocLong>>} : add_documents(docs)

SearchPersisted ==
    \E k \in 1..MaxK :
        \E out \in search(index, documents, <<0, 10>>, k, PyNone) :
            /\ last' = Call("search",
                            [query_embedding |-> <<0, 10>>, k |-> k, filters |-> PyNone],
                            out.raised, out.results, {"search"}, out)
            /\ UNCHANGED <<store, openai_enabled, loaded, disk, threads, query_cache, clock,
                           tracked>>

NextPersist == AddOne \/ AddBatch \/ save \/ load \/ NewStore \/ SearchPersisted

SpecPersist == InitStore /\ [][NextPersist]_vars

----------------------------------------------------------------------------
(* The filter evaluator alone, called on metadata and filters of every shape *)

IntV2020 == IntV(2020)

IntV20 == IntV(20)

(* doc.metadata of the documents the evaluator is called on *)
MetaPool ==
    {<<>>,
     [category |-> StrV(sAgriculture), launch_year |-> IntV2020],
     [category |-> StrV(sAgricultureLower), launch_year |-> StrV(s2020)],
     [category |-> StrV(sAgricultureAllied), state_name |-> StrV(sKerala)],
     [category |-> StrV(sEducation), launch_year |-> IntV20],
     [launch_year |-> IntV2020, state_name |-> StrV(sKerala)]}

(* the entries (key, value) a filters dict is made of *)
FilterEntries ==
    {<<"category", StrV(sAgriculture)>>,
     <<"category", StrV(sAgricultureLower)>>,
     <<"category", StrV(sEducation)>>,
     <<"category", ListV(<<StrV(sAgriculture), StrV(sHealth)>>)>>,
     <<"launch_year", IntV2020>>,
     <<"launch_year", StrV(s2020)>>,
     <<"launch_year", StrV(s20)>>,
     <<"launch_year", ListV(<<StrV(s2020)>>)>>,
     <<"state_name", StrV(sKerala)>>}

(* the filters dicts: up to MaxFilterLen entries, no key twice *)
FilterPool ==
    {f \in UNION {[1..n -> FilterEntries] : n \in 0..MaxFilterLen} :
        \A i \in 1..Len(f), j \in 1..Len(f) : i # j => f[i][1] # f[j][1]}

(* a call of _matches_filters *)
MatchFilters ==
    \E metadata \in MetaPool, filters \in FilterPool :
        /\ last' = Call("_matches_filters",
                        [metadata |-> metadata, filters |-> filters],
                        FALSE,
                        _matches_filters(SchemeDocument("M", <<>>, metadata, NoEmbedding),
                                         filters),
                        {}, <<>>)
        /\ UNCHANGED <<store, openai_enabled, loaded, disk, threads, query_cache, clock, tracked>>

NextFilter == MatchFilters

SpecFilter == InitStore /\ [][NextFilter]_vars

----------------------------------------------------------------------------
(* The filter extraction alone, called on query texts of up to MaxWords words *)

MaxWords == 3

wKerala == <<"K","e","r","a","l","a">>

wGoa == <<"g","o","a">>

wFarmer == <<"f","a","r","m","e","r">>

wStudent == <<"s","t","u","d","e","n","t">>

wPension == <<"p","e","n","s","i","o","n">>

wScheme == <<"s","c","h","e","m","e">>

QueryWords == {wKerala, wGoa, wFarmer, wStudent, wPension, wScheme}

(* " ".join(words) *)
RECURSIVE JoinWords(_)
JoinWords(words) ==
    IF Len(words) = 1
    THEN words[1]
    ELSE words[1] \o <<" ">> \o JoinWords(Tail(words))

(* the words of the text a call is made on: one word, or the words of *)
(* the call before and one more                                       *)
NextWords ==
    {<<w>> : w \in QueryWords}
        \cup (IF last.op = "_extract_query_filters" /\ Len(last.args.words) < MaxWords
              THEN {Append(last.args.words, w) : w \in QueryWords}
              ELSE {})

(* a call of _extract_query_filters *)
ExtractFilters ==
    \E words \in NextWords :
        /\ last' = Call("_extract_query_filters",
                        [query |-> JoinWords(words), words |-> words], FALSE,
                        _extract_query_filters(JoinWords(words)), {}, <<>>)
        /\ UNCHANGED <<store, openai_enabled, loaded, disk, threads, query_cache, clock, tracked>>

NextExtract == ExtractFilters

SpecExtract == InitStore /\ [][NextExtract]_vars

----------------------------------------------------------------------------
(* The ranker alone, called on lists of up to MaxRank candidates *)

MaxRank == 3

DocL ==
    SchemeDocument("L", <<"l">>,
        [category |-> StrV(sAgriculture), scheme_name |-> StrV(sLoanLoanScheme)],
        <<3, 4>>)

RankDocs == {DocA, DocD, DocL, DocNoEmbedding}

(* similarity scores, in hundredths *)
RankScores == {60, 80}

RankQueries == {qLoanScheme, qLoanLoanSupport}

(* the candidates a call is made on: one candidate, or the candidates of *)
(* the call before and one more document                                 *)
NextSchemes ==
    {<<[doc |-> d, score |-> x]>> : d \in RankDocs, x \in RankScores}
        \cup (IF last.op = "_rank_schemes_by_relevance"
                 /\ Len(last.args.schemes) < MaxRank
              THEN {Append(last.args.schemes, [doc |-> d, score |-> x]) :
                       d \in {e \in RankDocs :
                                \A i \in 1..Len(last.args.schemes) :
                                    last.args.schemes[i].doc # e},
                       x \in RankScores}
              ELSE {})

(* a call of _rank_schemes_by_relevance *)
RankSchemes ==
    \E text \in RankQueries, schemes \in NextSchemes :
        /\ last' = Call("_rank_schemes_by_relevance",
                        [schemes |-> schemes, query |-> text], FALSE,
                        _rank_schemes_by_relevance(schemes, text), {}, <<>>)
        /\ UNCHANGED <<store, openai_enabled, loaded, disk, threads, query_cache, clock, tracked>>

NextRank == RankSchemes

SpecRank == InitStore /\ [][NextRank]_vars

----------------------------------------------------------------------------
(* Properties of the filter evaluator, under SpecFilter *)

FilterCall == last.op = "_matches_filters"

(* the call had one entry, on a field the metadata holds *)
OneEntryCall ==
    /\ FilterCall
    /\ Len(last.args.filters) = 1
    /\ last.args.filters[1][1] \in DOMAIN last.args.metadata

EntryValue == last.args.filters[1][2]

FieldValue == last.args.metadata[last.args.filters[1][1]]

(* str(v) of a scalar value, written out *)
Stringified(v) == IF v[1] = "str" THEN v[2] ELSE IntToStr(v[2])

(* C1: _matches_filters is a conjunction: it returns True exactly when   *)
(* every entry of filters is satisfied by doc.metadata on its own; an     *)
(* entry on a field the metadata lacks is never satisfied, and the empty  *)
(* filters match every document.                                          *)
C1_Conjunction ==
    FilterCall =>
        LET metadata == last.args.metadata
            filters == last.args.filters
        IN  /\ last.value =
                  (\A i \in 1..Len(filters) :
                      MatchesEntry(metadata, filters[i][1], filters[i][2]))
            /\ (\E i \in 1..Len(filters) : filters[i][1] \notin DOMAIN metadata)
                  => last.value = FALSE
            /\ Len(filters) = 0 => last.value = TRUE
            /\ ~last.raised

(* two entries, the first satisfied, the second not: the document is excluded *)
C1_Witness ==
    /\ FilterCall
    /\ Len(last.args.filters) = 2
    /\ last.args.filters[1][1] \in DOMAIN last.args.metadata
    /\ last.args.filters[2][1] \in DOMAIN last.args.metadata
    /\ MatchesEntry(last.args.metadata, last.args.filters[1][1], last.args.filters[1][2])
    /\ ~MatchesEntry(last.args.metadata, last.args.filters[2][1], last.args.filters[2][2])
    /\ last.value = FALSE

(* C2, as amended: a str predicate p matches a field value v exactly when *)
(* p.lower() is a substring of str(v).lower(); a predicate of any other   *)
(* scalar type (a number) matches exactly when v == p, so the number 2020 *)
(* matches the number 2020 and does not match the string "2020".          *)
C2_ScalarByType ==
    (OneEntryCall /\ EntryValue[1] # "list") =>
        IF EntryValue[1] = "str"
        THEN last.value =
                IsSubstring(StrLower(EntryValue[2]), StrLower(Stringified(FieldValue)))
        ELSE last.value = (FieldValue[1] = EntryValue[1] /\ FieldValue[2] = EntryValue[2])

(* the number 2020 asked of a field holding the number 2020 *)
C2_Witness ==
    /\ OneEntryCall
    /\ EntryValue = IntV2020
    /\ FieldValue = IntV2020
    /\ last.value = TRUE

(* C2, as stated: every scalar predicate p, string or number, matches     *)
(* exactly when lowercase(str(p)) is a substring of lowercase(str(v)).    *)
C2_ScalarStringified ==
    (OneEntryCall /\ EntryValue[1] # "list") =>
        last.value =
            IsSubstring(StrLower(Stringified(EntryValue)), StrLower(Stringified(FieldValue)))

(* C3: a list predicate L matches exactly when the field value equals an  *)
(* element of L, with no substring and no case folding: the list          *)
(* ["Agriculture", "Health"] rejects the categories "agriculture" and     *)
(* "Agriculture and Allied", which the scalar "Agriculture" accepts.      *)
C3_ListMembership ==
    /\ (OneEntryCall /\ EntryValue[1] = "list") =>
           last.value =
              (\E j \in 1..Len(EntryValue[2]) :
                  /\ EntryValue[2][j][1] = FieldValue[1]
                  /\ EntryValue[2][j][2] = FieldValue[2])
    /\ (/\ OneEntryCall
        /\ last.args.filters[1][1] = "category"
        /\ FieldValue \in {StrV(sAgricultureLower), StrV(sAgricultureAllied)}) =>
           /\ EntryValue = ListV(<<StrV(sAgriculture), StrV(sHealth)>>) => last.value = FALSE
           /\ EntryValue = StrV(sAgriculture) => last.value = TRUE

(* the list asked of the category "Agriculture and Allied": rejected *)
C3_Witness ==
    /\ OneEntryCall
    /\ EntryValue = ListV(<<StrV(sAgriculture), StrV(sHealth)>>)
    /\ FieldValue = StrV(sAgricultureAllied)
    /\ last.value = FALSE

----------------------------------------------------------------------------
(* Properties of VectorStore.search, under SpecStore *)

SearchCall == last.op \in {"search", "search_by"}

(* the entry (key, value) of a filters dict holds of the metadata *)
Satisfies(metadata, entry) ==
    /\ entry[1] \in DOMAIN metadata
    /\ LET v == metadata[entry[1]]
           p == entry[2]
       IN  IF p[1] = "list"
           THEN \E j \in 1..Len(p[2]) : p[2][j][1] = v[1] /\ p[2][j][2] = v[2]
           ELSE IF p[1] = "str"
                THEN IsSubstring(StrLower(p[2]), StrLower(Stringified(v)))
                ELSE p[1] = v[1] /\ p[2] = v[2]

(* C4: with a non-empty filters dict every document search returns        *)
(* satisfies every entry of it; with {"category": "Education"} every      *)
(* returned category contains "education" whatever the case, and          *)
(* search_by_category, search_by_state and search_by_ministry return only *)
(* documents that match on their field.                                   *)
C4_ResultsSatisfyFilters ==
    (SearchCall /\ Truthy(last.args.filters)) =>
        \A i \in 1..Len(last.value) :
            LET metadata == last.value[i].doc.metadata
                filters == last.args.filters[2]
            IN  /\ \A j \in 1..Len(filters) : Satisfies(metadata, filters[j])
                /\ filters = << <<"category", StrV(sEducation)>> >> =>
                      /\ "category" \in DOMAIN metadata
                      /\ IsSubstring(sEducationLower, StrLower(metadata.category[2]))
                /\ last.op = "search_by" =>
                      /\ filters[1][1] \in DOMAIN metadata
                      /\ IsSubstring(StrLower(filters[1][2][2]),
                                     StrLower(metadata[filters[1][1]][2]))

(* the store holds a document nearer to the query than the one returned, *)
(* and the filters kept it out                                           *)
C4_Witness ==
    /\ SearchCall
    /\ Truthy(last.args.filters)
    /\ Len(last.value) > 0
    /\ \E h \in 1..Len(last.inner.hits) :
          /\ last.inner.hits[h][1] > last.value[1].score
          /\ \E j \in 1..Len(last.args.filters[2]) :
                ~Satisfies(documents[last.inner.hits[h][2] + 1].metadata,
                           last.args.filters[2][j])

(* a search without filters that returned *)
PlainSearchReturned ==
    /\ last.op = "search"
    /\ ~Truthy(last.args.filters)
    /\ ~last.raised

(* C5: search without filters returns the candidates in descending        *)
(* inner-product order, documents of equal similarity in the order of     *)
(* their insertion, and no index position twice.                          *)
C5_DescendingTiesByInsertion ==
    PlainSearchReturned =>
        \A i \in 1..Len(last.value), j \in 1..Len(last.value) :
            i < j =>
                /\ last.value[i].score >= last.value[j].score
                /\ last.value[i].score = last.value[j].score
                      => last.value[i].pos < last.value[j].pos
                /\ last.value[i].pos # last.value[j].pos

(* C6: after N >= 0 insertions into an empty store, search with k > N and *)
(* no filters returns exactly N results and does not raise, N = 0         *)
(* included.                                                              *)
C6_AllReturnedNeverRaises ==
    (/\ last.op = "search"
     /\ ~Truthy(last.args.filters)
     /\ last.args.k > Len(documents)) =>
        /\ ~last.raised
        /\ Len(last.value) = Len(documents)

(* the matching candidates among the hits, in candidate order *)
MatchingHits(hits, filters) ==
    LET Matches(h) ==
            ~Truthy(filters)
            \/ \A j \in 1..Len(filters[2]) : Satisfies(documents[h[2] + 1].metadata, filters[2][j])
    IN  SelectSeq(hits, Matches)

(* C7: search over N documents inspects exactly the min(2k, N) most       *)
(* similar candidates and returns, in candidate order, the first k of     *)
(* them that satisfy the filters, all of them when they are fewer than k, *)
(* and does not raise.                                                    *)
C7_FirstKOfOverFetch ==
    SearchCall =>
        LET hits == last.inner.hits
            k == last.args.k
            matching == MatchingHits(hits, last.args.filters)
            taken == SubSeq(matching, 1, Min(k, Len(matching)))
        IN  /\ ~last.raised
            /\ Len(hits) = Min(2 * k, Len(documents))
            /\ \A h \in 1..Len(hits), p \in 0..(Len(documents) - 1) :
                  (\A g \in 1..Len(hits) : hits[g][2] # p) =>
                      InnerProduct(index[p + 1], Normalize(last.args.query_embedding))
                          <= hits[h][1]
            /\ Len(last.value) = Len(taken)
            /\ \A i \in 1..Len(taken) :
                  /\ last.value[i].doc = documents[taken[i][2] + 1]
                  /\ last.value[i].score = taken[i][1]

----------------------------------------------------------------------------
(* Properties of GovernmentSchemeRAG.query, under Spec *)

QueryCall == last.op = "query"

(* C8: query fails with a NotReady error whenever no index was loaded at  *)
(* construction: it raises before the embedding function or the vector    *)
(* store is called and returns no normal result.                          *)
C8_NotReadyWhenUnloaded ==
    (QueryCall /\ ~loaded) =>
        /\ last.raised
        /\ last.steps = {}

(* the step is a call of query that finds, for its key, an entry younger *)
(* than the TTL of 3600 seconds                                          *)
FreshEntryCalled ==
    /\ last'.op = "query"
    /\ last'.args.time = clock
    /\ last'.args.cache_key \in DOMAIN query_cache
    /\ clock - query_cache[last'.args.cache_key].timestamp < cache_timeout

(* C9: a call of query whose key has a cache entry younger than 3600     *)
(* seconds returns the stored result unchanged; it runs neither the      *)
(* embedding function nor the vector store, the ranker or the response   *)
(* generator, it leaves the cache as it was, and it does so even when    *)
(* the index changed after the entry was stored.                         *)
C9_CacheHitReturnsStored ==
    [][FreshEntryCalled =>
          /\ ~last'.raised
          /\ last'.value = query_cache[last'.args.cache_key].result
          /\ last'.steps = {"cache"}
          /\ query_cache' = query_cache
          /\ UNCHANGED store]_vars

(* a result of one scheme is returned from the cache for a query of two, *)
(* when the store by now holds a further document the filters let in     *)
C9_Witness ==
    /\ QueryCall
    /\ last.steps = {"cache"}
    /\ last.args.max_schemes = 2
    /\ Len(last.value.relevant_schemes) = 1
    /\ last.value.relevant_schemes[1].scheme_name # DocC.metadata.scheme_name
    /\ \E i \in 1..Len(documents) : documents[i].id = DocC.id
    /\ \A j \in 1..Len(last.value.metadata.filters_applied) :
          Satisfies(DocC.metadata, last.value.metadata.filters_applied[j])

(* the step is a call of query, less than the TTL after a call with the  *)
(* same inputs that ran the whole pipeline and returned its result       *)
RepeatsCompletedCall ==
    /\ last'.op = "query"
    /\ last'.args.time = clock
    /\ tracked # NoTracked
    /\ last'.args.cache_key = tracked.key
    /\ clock - tracked.time < cache_timeout

ExpiredEntryCalled ==
    /\ last'.op = "query"
    /\ last'.args.time = clock
    /\ last'.args.cache_key \in DOMAIN query_cache
    /\ clock - query_cache[last'.args.cache_key].timestamp >= cache_timeout

EmbeddingFailed ==
    /\ QueryCall
    /\ "embed" \in last.steps
    /\ "search" \notin last.steps

(* C12: when the embedding function fails on a cache miss, query does    *)
(* not raise: it returns a result with no relevant schemes, confidence   *)
(* 0.0 and an error flag in its metadata, and the vector store is not    *)
(* called.                                                               *)
C12_EmbeddingFailureIsSoft ==
    EmbeddingFailed =>
        /\ ~last.raised
        /\ last.value.relevant_schemes = <<>>
        /\ last.value.confidence_score = 0
        /\ "error" \in DOMAIN last.value.metadata
        /\ last.steps = {"embed"}
        /\ last.inner = <<>>
        /\ openai_enabled

(* the embedding call of an online engine with a loaded store failed *)
C12_Witness ==
    /\ EmbeddingFailed
    /\ loaded
    /\ ~last.raised
    /\ last.value.metadata.error = "Failed to generate query embedding"
    /\ last.args.cache_key \notin DOMAIN query_cache

(* a call of query that ran the search and returned *)
SearchedCall ==
    /\ QueryCall
    /\ "search" \in last.steps
    /\ ~last.raised

(* the entries of an Optional[Dict] *)
EntriesOf(f) == IF f[1] = "dict" THEN f[2] ELSE <<>>

KeysOf(entries) == {entries[i][1] : i \in 1..Len(entries)}

----------------------------------------------------------------------------
(* Properties of _extract_query_filters, under SpecExtract *)

ExtractCall == last.op = "_extract_query_filters"

(* the positions of the fixed list whose state is named in the text *)
StatesNamed(text) ==
    {i \in 1..Len(indian_states) : IsSubstring(indian_states[i], StrLower(text))}

(* the positions of the fixed mapping one of whose keywords is in the text *)
TopicsHit(text) ==
    {i \in 1..Len(category_keywords) :
        \E n \in 1..Len(category_keywords[i][2]) :
            IsSubstring(category_keywords[i][2][n], StrLower(text))}

Least(S) == CHOOSE x \in S : \A y \in S : x <= y

(* C14: _extract_query_filters gives at most one state_name and at most *)
(* one category: of several states named in the text the one that comes *)
(* first in the fixed list, of several topics hit the first of the      *)
(* fixed mapping, and no field for what the text does not name.         *)
C14_FirstOfListWins ==
    ExtractCall =>
        LET filters == last.value
            named == StatesNamed(last.args.query)
            hit == TopicsHit(last.args.query)
            states == {i \in 1..Len(filters) : filters[i][1] = "state_name"}
            topics == {i \in 1..Len(filters) : filters[i][1] = "category"}
        IN  /\ states \cup topics = 1..Len(filters)
            /\ Cardinality(states) <= 1
            /\ Cardinality(topics) <= 1
            /\ named = {} <=> states = {}
            /\ hit = {} <=> topics = {}
            /\ \A i \in states :
                  filters[i][2] = StrV(StrTitle(indian_states[Least(named)]))
            /\ \A i \in topics :
                  filters[i][2] = StrV(StrTitle(category_keywords[Least(hit)][1]))

(* the text names Kerala before Goa: the state is Goa, the earlier of the *)
(* two in the list                                                       *)
C14_Witness ==
    /\ ExtractCall
    /\ last.args.query = JoinWords(<<wKerala, wGoa, wStudent>>)
    /\ last.value = << <<"state_name", StrV(<<"G","o","a">>)>>, <<"category", StrV(sEducation)>> >>

----------------------------------------------------------------------------
(* Properties of _rank_schemes_by_relevance, under SpecRank *)

RankCall == last.op = "_rank_schemes_by_relevance"

(* the scheme_name of a candidate, '' when its document has none *)
NameOf(candidate) ==
    IF "scheme_name" \in DOMAIN candidate.doc.metadata
    THEN candidate.doc.metadata.scheme_name[2]
    ELSE <<>>

(* the distinct words the lower-cased query and scheme name share *)
SharedWords(text, candidate) ==
    StrWords(StrLower(text)) \cap StrWords(StrLower(NameOf(candidate)))

(* the position in the input of the candidate a ranked scheme was made of *)
InputOf(scheme) ==
    CHOOSE i \in 1..Len(last.args.schemes) :
        StrV(NameOf(last.args.schemes[i])) = scheme.scheme_name

(* C15: for every candidate the ranker gives relevance_score =            *)
(* similarity_score + 0.1 * n, n the number of distinct words the         *)
(* lower-cased query and scheme_name share; so relevance_score >=         *)
(* similarity_score, with equality exactly when no word is shared or the  *)
(* document has no scheme_name.  Scores are in hundredths.                *)
C15_AdditiveBoost ==
    RankCall =>
        \A r \in 1..Len(last.value) :
            LET scheme == last.value[r]
                candidate == last.args.schemes[InputOf(scheme)]
                n == Cardinality(SharedWords(last.args.query, candidate))
            IN  /\ scheme.similarity_score = candidate.score
                /\ scheme.relevance_score = scheme.similarity_score + 10 * n
                /\ scheme.relevance_score >= scheme.similarity_score
                /\ scheme.relevance_score = scheme.similarity_score <=>
                      \/ SharedWords(last.args.query, candidate) = {}
                      \/ "scheme_name" \notin DOMAIN candidate.doc.metadata
                /\ "scheme_name" \notin DOMAIN candidate.doc.metadata => n = 0

(* "loan Loan support" against "Loan loan Scheme": one shared word, a boost *)
(* of 0.1, beside a document without scheme_name that gets none             *)
C15_Witness ==
    /\ RankCall
    /\ last.args.query = qLoanLoanSupport
    /\ \E r \in 1..Len(last.value) :
          /\ last.value[r].scheme_name = StrV(sLoanLoanScheme)
          /\ last.value[r].relevance_score = last.value[r].similarity_score + 10
    /\ \E r \in 1..Len(last.value) :
          /\ last.value[r].scheme_name = StrV(<<>>)
          /\ last.value[r].relevance_score = last.value[r].similarity_score

(* the position in the output of the scheme made of the i-th candidate *)
OutputOf(i) ==
    CHOOSE r \in 1..Len(last.value) :
        last.value[r].scheme_name = StrV(NameOf(last.args.schemes[i]))

(* C16: the ranker returns exactly the candidates it was given, none     *)
(* added or dropped, in non-increasing order of relevance_score, and two *)
(* candidates of equal relevance_score keep the order they had in the    *)
(* input.                                                                *)
C16_StableDescendingSort ==
    RankCall =>
        /\ Len(last.value) = Len(last.args.schemes)
        /\ \A i \in 1..Len(last.args.schemes) :
              /\ \E r \in 1..Len(last.value) :
                    last.value[r].scheme_name = StrV(NameOf(last.args.schemes[i]))
              /\ last.value[OutputOf(i)].similarity_score = last.args.schemes[i].score
              /\ last.value[OutputOf(i)].category =
                    MetaGet(last.args.schemes[i].doc.metadata, "category")
        /\ \A i \in 1..Len(last.args.schemes), j \in 1..Len(last.args.schemes) :
              i # j => OutputOf(i) # OutputOf(j)
        /\ \A r \in 1..Len(last.value), q \in 1..Len(last.value) :
              r < q =>
                  /\ last.value[r].relevance_score >= last.value[q].relevance_score
                  /\ last.value[r].relevance_score = last.value[q].relevance_score
                        => InputOf(last.value[r]) < InputOf(last.value[q])

(* three candidates of which the last two come out at the same relevance *)
(* from different similarities, below the first in the output and in the *)
(* order they were given in                                              *)
C16_Witness ==
    /\ RankCall
    /\ Len(last.value) = 3
    /\ InputOf(last.value[1]) = 3
    /\ last.value[2].relevance_score = last.value[3].relevance_score
    /\ last.value[2].similarity_score # last.value[3].similarity_score
    /\ InputOf(last.value[2]) = 1
    /\ InputOf(last.value[3]) = 2

(* C17: of two candidates of equal similarity score the one whose        *)
(* scheme_name shares strictly more distinct words with the query comes  *)
(* strictly before the other in the output, whatever their order in the  *)
(* input.                                                                *)
C17_MoreSharedWordsFirst ==
    RankCall =>
        \A i \in 1..Len(last.args.schemes), j \in 1..Len(last.args.schemes) :
            (/\ last.args.schemes[i].score = last.args.schemes[j].score
             /\ Cardinality(SharedWords(last.args.query, last.args.schemes[i]))
                   > Cardinality(SharedWords(last.args.query, last.args.schemes[j])))
                => OutputOf(i) < OutputOf(j)

(* "Loan Support" given before "Farmer Loan Scheme" at the same         *)
(* similarity, for the query "loan scheme": it shares one word, the     *)
(* other two, and comes out behind it                                   *)
C17_Witness ==
    /\ RankCall
    /\ last.args.query = qLoanScheme
    /\ Len(last.args.schemes) >= 2
    /\ last.args.schemes[1].doc = DocD
    /\ last.args.schemes[2].doc = DocA
    /\ last.args.schemes[1].score = last.args.schemes[2].score
    /\ OutputOf(2) < OutputOf(1)
    /\ Cardinality(SharedWords(qLoanScheme, last.args.schemes[1])) = 1
    /\ Cardinality(SharedWords(qLoanScheme, last.args.schemes[2])) = 2

(* the largest sum of n similarity scores among the schemes *)
LargestSum(schemes, n) ==
    LET sums == {SumSimilarity([i \in 1..n |-> schemes[p[i]]]) :
                    p \in {f \in [1..n -> 1..Len(schemes)] :
                              \A i \in 1..n, j \in 1..n : i < j => f[i] < f[j]}}
    IN  CHOOSE m \in sums : \A o \in sums : o <= m

(* C18: the confidence_score of a query result is the arithmetic mean of *)
(* the three largest similarity scores among the returned results, of    *)
(* all of them when fewer than three are returned, and 0.0 when none is  *)
(* returned (confidence is held in six-hundredths).                      *)
C18_MeanOfThreeLargest ==
    SearchedCall =>
        LET schemes == last.value.relevant_schemes
            n == Min(3, Len(schemes))
        IN  IF n = 0
            THEN last.value.confidence_score = 0
            ELSE last.value.confidence_score * n = 6 * LargestSum(schemes, n)

(* a call of query that returned a result other than the error result *)
SuccessfulCall ==
    /\ QueryCall
    /\ ~last.raised
    /\ "error" \notin DOMAIN last.value.metadata

(* the entries of the inferred filters the caller did not give, and the *)
(* caller's entries                                                     *)
MergedEntries(user_query, additional_filters) ==
    LET inferred == _extract_query_filters(user_query)
        explicit == EntriesOf(additional_filters)
    IN  {inferred[i] : i \in {j \in 1..Len(inferred) : inferred[j][1] \notin KeysOf(explicit)}}
            \cup {explicit[i] : i \in 1..Len(explicit)}

(* the scheme is made of the document *)
SchemeOf(scheme, doc) ==
    /\ scheme.scheme_id = MetaGet(doc.metadata, "scheme_id")
    /\ scheme.scheme_name = MetaGet(doc.metadata, "scheme_name")
    /\ scheme.category = MetaGet(doc.metadata, "category")
    /\ scheme.state = MetaGet(doc.metadata, "state_name")
    /\ scheme.ministry = MetaGet(doc.metadata, "implementing_ministry")

(* C19: every successful query(text, k, filters) returns at most k       *)
(* results, in non-increasing order of relevance_score, each of them a   *)
(* document of the index that satisfies the merged (inferred plus        *)
(* explicit) filter, and metadata.total_schemes_found is the number of   *)
(* results returned.                                                     *)
C19_ResultsWithinKSortedAndMatching ==
    SuccessfulCall =>
        LET schemes == last.value.relevant_schemes
            merged == MergedEntries(last.args.user_query, last.args.additional_filters)
        IN  /\ Len(schemes) <= last.args.max_schemes
            /\ \A r \in 1..Len(schemes), q \in 1..Len(schemes) :
                  r < q => schemes[r].relevance_score >= schemes[q].relevance_score
            /\ \A r \in 1..Len(schemes) :
                  \E i \in 1..Len(documents) :
                      /\ SchemeOf(schemes[r], documents[i])
                      /\ \A entry \in merged : Satisfies(documents[i].metadata, entry)
            /\ last.value.metadata.total_schemes_found = Len(schemes)

(* a query for one scheme whose inferred category two documents of the   *)
(* index satisfy and a third does not: one of the two is returned        *)
C19_Witness ==
    /\ SuccessfulCall
    /\ "search" \in last.steps
    /\ last.args.max_schemes = 1
    /\ MergedEntries(last.args.user_query, last.args.additional_filters) # {}
    /\ Len(last.value.relevant_schemes) = 1
    /\ last.value.metadata.total_schemes_found = 1
    /\ Cardinality({i \in 1..Len(documents) :
                       \A entry \in MergedEntries(last.args.user_query,
                                                  last.args.additional_filters) :
                           Satisfies(documents[i].metadata, entry)}) = 2
    /\ Len(documents) = 3

-----------------------------------------------------------------------------
(* Properties of add_document and add_documents, under SpecStore *)

(* the documents a call of add_document or add_documents was given *)
DocsGiven(call) == IF call.op = "add_document" THEN <<call.args>> ELSE call.args

(* the step is a call that inserts vectors of which one has not the *)
(* length the store was configured with                             *)
InsertsWrongLength ==
    /\ last'.op \in {"add_document", "add_documents"}
    /\ \A i \in 1..Len(DocsGiven(last')) : DocsGiven(last')[i].embedding # NoEmbedding
    /\ \E i \in 1..Len(DocsGiven(last')) :
          Len(DocsGiven(last')[i].embedding) # embedding_dim

(* C20: inserting a vector whose length is not the embedding dimension  *)
(* of the store fails with an error, through add_document as well as    *)
(* through add_documents, and the failed call leaves the index, the     *)
(* document list and the id map exactly as they were before the call.   *)
C20_WrongLengthRaisesStoreUnchanged ==
    [][InsertsWrongLength =>
          /\ last'.raised
          /\ last'.value \in {"AssertionError", "ValueError"}
          /\ index' = index
          /\ documents' = documents
          /\ id_to_doc' = id_to_doc]_vars

(* add_documents was given a document of the right length and one of a *)
(* wrong length while the store held a document: it raised, and        *)
(* neither of the two is in the store                                  *)
C20_Witness ==
    /\ last.op = "add_documents"
    /\ last.args = <<DocA, DocLong>>
    /\ last.raised
    /\ Len(documents) = 1
    /\ Len(index) = 1
    /\ DOMAIN id_to_doc = {documents[1].id}
    /\ documents[1].id \notin {DocA.id, DocLong.id}

(* a document of the list has no embedding, or the embeddings cannot be *)
(* stacked to one matrix, or the matrix is not one the index takes      *)
BadBatch(docs) ==
    \/ \E i \in 1..Len(docs) : docs[i].embedding = NoEmbedding
    \/ \E i \in 1..Len(docs), j \in 1..Len(docs) :
          Len(docs[i].embedding) # Len(docs[j].embedding)
    \/ \E i \in 1..Len(docs) : Len(docs[i].embedding) # embedding_dim

(* C21: add_documents is all-or-nothing: when a document of the batch is *)
(* bad (no embedding, or an embedding that cannot be stacked or added)   *)
(* the call raises and none of the batch is added to the index, to the   *)
(* document list or to the id map; otherwise all the documents of the    *)
(* batch are appended in batch order.                                    *)
C21_BatchAllOrNothing ==
    [][last'.op = "add_documents" =>
          LET docs == last'.args IN
          IF BadBatch(docs)
          THEN /\ last'.raised
               /\ index' = index
               /\ documents' = documents
               /\ id_to_doc' = id_to_doc
          ELSE /\ docs # <<>> => ~last'.raised
               /\ Len(documents') = Len(documents) + Len(docs)
               /\ Len(index') = Len(index) + Len(docs)
               /\ \A i \in 1..Len(documents) :
                     documents'[i] = documents[i] /\ index'[i] = index[i]
               /\ \A i \in 1..Len(docs) :
                     /\ documents'[Len(documents) + i] = docs[i]
                     /\ index'[Len(index) + i] = Normalize(docs[i].embedding)
                     /\ docs[i].id \in DOMAIN id_to_doc'
                     /\ id_to_doc'[docs[i].id] = docs[i]
               /\ \A id \in DOMAIN id_to_doc :
                     id \in DOMAIN id_to_doc' /\ id_to_doc'[id] = id_to_doc[id]]_vars

(* a batch of two good documents was added behind the one document the *)
(* store held, in the order of the batch                               *)
C21_Witness ==
    /\ last.op = "add_documents"
    /\ ~last.raised
    /\ last.args = <<DocC, DocD>>
    /\ Len(documents) = 3
    /\ documents[2] = DocC
    /\ documents[3] = DocD
    /\ index[2] = Normalize(DocC.embedding)
    /\ index[3] = Normalize(DocD.embedding)
    /\ DOMAIN id_to_doc = {documents[1].id, DocC.id, DocD.id}

-----------------------------------------------------------------------------
(* Properties of the query cache, under SpecWide *)

(* the step is a call of query that ran the whole pipeline and returned *)
(* its result                                                           *)
PipelineCompleted ==
    /\ last'.op = "query"
    /\ ~last'.raised
    /\ {"embed", "search", "rank", "respond", "store"} \subseteq last'.steps
    /\ "error" \notin DOMAIN last'.value.metadata

-----------------------------------------------------------------------------
(* Serving leaves the store alone, under SpecServe *)

-----------------------------------------------------------------------------
(* Concurrent calls of query, under SpecConcurrentFair *)

(* thread t made the assignment to the cache *)
HasStored(t) == threads[t].seq > 0

(* thread t missed the cold cache and returned the result of its own *)
(* pipeline                                                          *)
ColdCompleted(t) ==
    /\ threads[t].pc = "done"
    /\ ~threads[t].found
    /\ ~threads[t].raised
    /\ "error" \notin DOMAIN threads[t].value.metadata

(* every entry is a pair of a result and a timestamp, the result made   *)
(* by a call of exactly the key of the entry                            *)
EntriesComplete ==
    \A key \in DOMAIN query_cache :
        /\ DOMAIN query_cache[key] = {"result", "timestamp"}
        /\ query_cache[key].timestamp \in 0..clock
        /\ \E t \in Threads :
              /\ HasStored(t)
              /\ key = CacheKey(threads[t].input[1], threads[t].input[2], threads[t].input[3])
              /\ query_cache[key].result = threads[t].value
              /\ query_cache[key].result.query = threads[t].input[1]
              /\ "error" \notin DOMAIN query_cache[key].result.metadata

(* two calls of distinct keys that stored are both in the cache, each *)
(* with its own result                                                *)
DistinctKeysBothCached ==
    \A t \in Threads, u \in Threads :
        (/\ HasStored(t)
         /\ HasStored(u)
         /\ threads[t].cache_key # threads[u].cache_key) =>
            /\ query_cache[threads[t].cache_key].result = threads[t].value
            /\ query_cache[threads[u].cache_key].result = threads[u].value

(* two calls of one key that both missed the cold cache have both run  *)
(* the whole pipeline and stored, and the cache holds the result of    *)
(* the one that stored last                                            *)
SameKeyBothRunLastWins ==
    \A t \in Threads, u \in Threads :
        (/\ t # u
         /\ ColdCompleted(t)
         /\ ColdCompleted(u)
         /\ threads[t].cache_key = threads[u].cache_key
         /\ threads[t].seq < threads[u].seq) =>
            /\ threads[t].steps = {"embed", "search", "rank", "respond", "store"}
            /\ threads[u].steps = {"embed", "search", "rank", "respond", "store"}
            /\ HasStored(t)
            /\ query_cache[threads[u].cache_key].result = threads[u].value

(* the only step that changes the cache is the assignment of a thread,  *)
(* which puts its result with the time of the assignment under its key  *)
(* and leaves the other entries                                         *)
StoresOwnEntry ==
    /\ query_cache' # query_cache =>
          \E t \in Threads : threads[t].pc = "store" /\ threads'[t].pc = "done"
    /\ \A t \in Threads :
          (threads[t].pc = "store" /\ threads'[t].pc = "done") =>
             /\ query_cache'[threads[t].cache_key] =
                   [result |-> threads[t].value, timestamp |-> clock]
             /\ \A key \in DOMAIN query_cache \ {threads[t].cache_key} :
                   key \in DOMAIN query_cache' /\ query_cache'[key] = query_cache[key]

(* C30: under every interleaving of two calls of query on a store that  *)
(* is not written, every cache entry is a whole (result, timestamp)     *)
(* pair made by a call of exactly its key; two calls of distinct keys   *)
(* are both cached with their own results; two calls of one key that    *)
(* both miss the cold cache both run the whole pipeline, and the cache  *)
(* holds the result of the one that stored last; and every call that    *)
(* is made returns.                                                     *)
C30_ConcurrentQueries ==
    /\ [](EntriesComplete /\ DistinctKeysBothCached /\ SameKeyBothRunLastWins)
    /\ [][StoresOwnEntry]_vars
    /\ \A t \in Threads : (threads[t].pc # "idle") ~> (threads[t].pc = "done")

(* two calls of one key both missed the cold cache, both ran the       *)
(* pipeline and stored, with different results; the cache holds the    *)
(* result of the second store                                          *)
C30_Witness ==
    \E t \in Threads, u \in Threads :
        /\ ColdCompleted(t)
        /\ ColdCompleted(u)
        /\ threads[t].cache_key = threads[u].cache_key
        /\ threads[t].seq = 1
        /\ threads[u].seq = 2
        /\ threads[t].value # threads[u].value
        /\ query_cache[threads[u].cache_key].result = threads[u].value
        /\ Len(threads[u].value.relevant_schemes) > 0

-----------------------------------------------------------------------------
(* The scenario of the three documents A, B and C, under SpecScenario *)

(* a call of query("farmer support", k, {category: "Agriculture"}) for   *)
(* two schemes or more that returned a result, on the store of A, B, C   *)
ScenarioCall ==
    /\ SuccessfulCall
    /\ last.args.user_query = qFarmerSupport
    /\ last.args.additional_filters = CategoryAgriculture
    /\ last.args.max_schemes >= 2
    /\ Len(documents) = 3

(* the names of the schemes returned, in the order returned *)
NamesReturned ==
    [r \in 1..Len(last.value.relevant_schemes) |->
        last.value.relevant_schemes[r].scheme_name[2]]

(* the similarity of the i-th document of the store to the query vector *)
(* the call searched with, as the schemes returned report it            *)
SimilarityOf(name) ==
    LET schemes == last.value.relevant_schemes
    IN  schemes[CHOOSE r \in 1..Len(schemes) : schemes[r].scheme_name[2] = name].similarity_score

(* the similarities a query vector of the model gives the documents of  *)
(* the store                                                            *)
SimilaritiesOfStore ==
    {[i \in 1..Len(index) |-> InnerProduct(index[i], Normalize(q))] : q \in QueryVectors}

(* C25: on the store of A ("Farmer Loan Scheme", Agriculture), B        *)
(* ("Student Scholarship", Education) and C ("Crop Insurance",          *)
(* Agriculture), whatever the similarities, the query "farmer support"  *)
(* with the filter {category: "Agriculture"} returns A and C and not B, *)
(* and A comes before C whenever the similarity of A plus 0.1 (10       *)
(* hundredths) exceeds the similarity of C.                             *)
C25_ScenarioReturnsAandC ==
    ScenarioCall =>
        /\ Len(NamesReturned) = 2
        /\ {NamesReturned[r] : r \in 1..2} = {sFarmerLoanScheme, sCropInsurance}
        /\ \E sims \in SimilaritiesOfStore :
              /\ SimilarityOf(sFarmerLoanScheme) = sims[1]
              /\ SimilarityOf(sCropInsurance) = sims[3]
              /\ sims[1] + 10 > sims[3] => NamesReturned = <<sFarmerLoanScheme, sCropInsurance>>

(* A is less similar to the query than C and still comes first, by its *)
(* boost, while B is more similar than A and is not returned           *)
C25_Witness ==
    /\ ScenarioCall
    /\ "search" \in last.steps
    /\ NamesReturned = <<sFarmerLoanScheme, sCropInsurance>>
    /\ SimilarityOf(sFarmerLoanScheme) < SimilarityOf(sCropInsurance)
    /\ \E i \in 1..Len(last.inner.hits) :
          /\ last.inner.hits[i][2] = 1
          /\ last.inner.hits[i][1] > SimilarityOf(sFarmerLoanScheme)

-----------------------------------------------------------------------------
(* Properties of save and load, under SpecPersist *)

(* what a caller sees of the outcomes of a search: whether it raised, and *)
(* the list of (document id, score)                                      *)
SearchView(vectors, docs, q, k, filters) ==
    { [raised |-> out.raised,
       list |-> [i \in 1..Len(out.results) |->
                    <<out.results[i].doc.id, out.results[i].score>>]] :
        out \in search(vectors, docs, q, k, filters) }

(* the step is a load of the files a completed save wrote *)
LoadsSavedStore ==
    /\ last'.op = "load"
    /\ disk.source # NoSource

LoadsBrokenArtifacts ==
    /\ last'.op = "load"
    /\ \/ disk.faiss = Absent
       \/ disk.pkl = Absent
       \/ disk.pkl = Unreadable

(* C24: load makes no partial load: when the index file or the document  *)
(* file is missing or unreadable, load fails with an error and leaves    *)
(* the index and the document list both unchanged; it never replaces one *)
(* of them without the other.                                            *)
C24_LoadIsAllOrError ==
    [][LoadsBrokenArtifacts =>
          /\ last'.raised
          /\ index' = index
          /\ documents' = documents]_vars

(* C26: in every reachable state of the store the index holds as many    *)
(* vectors as the document list holds documents and the vector at        *)
(* position i is that of documents[i]; search returns no document for a  *)
(* position that holds no vector, the position -1 included.              *)
C26_IndexInStepWithDocuments ==
    /\ Len(index) = Len(documents)
    /\ \A i \in 1..Len(documents) :
          (i <= Len(index) /\ documents[i].embedding # NoEmbedding)
              => index[i] = Normalize(documents[i].embedding)
    /\ (last.op = "search" /\ ~last.raised) =>
          \A h \in 1..Len(last.inner.hits) :
              last.inner.hits[h][2] < 0 =>
                  \A r \in 1..Len(last.value) :
                      last.value[r].score # last.inner.hits[h][1]

-----------------------------------------------------------------------------
(* Properties of the EmbeddingsGenerator, under SpecBuild *)

BuildCall == last.op = "process_schemes_dataset"

(* C22: the bulk build never silently drops a record: either every       *)
(* record of the source dataset is in the built and saved vector store,  *)
(* or the build fails; a record whose embedding could not be obtained    *)
(* aborts the build and is not skipped.                                  *)
C22_BuildKeepsEveryRecord ==
    (BuildCall /\ ~last.raised) =>
        LET schemes == last.args.schemes IN
        /\ \A i \in 1..Len(schemes) : last.inner.embeddings[i] # NoEmbedding
        /\ Len(documents) = Len(schemes)
        /\ Len(index) = Len(schemes)
        /\ \A i \in 1..Len(schemes) :
              /\ documents[i].content = _create_scheme_text(schemes[i])
              /\ documents[i].metadata.scheme_name = MetaGet(schemes[i], "scheme_name")
        /\ disk.pkl = PklFile(documents)
        /\ disk.faiss = FaissFile(index)

EmbeddingCall == last.op = "get_embedding"

(* the numbers of the calls at which the service returned an embedding *)
Successes(service) == {i \in DOMAIN service : service[i].ok}

(* C27: get_embedding(text, retries) ends after at most retries calls of *)
(* the embedding service: it returns the embedding of the first call     *)
(* that succeeds and calls no more after it, waits 2^attempt seconds (1, *)
(* 2, 4, ...) after each failed call but the last, and returns None,     *)
(* without raising, if and only if all retries calls failed.             *)
C27_BoundedRetryWithBackoff ==
    EmbeddingCall =>
        LET retries == last.args.retries
            service == last.args.service
            calls == last.inner.calls
            waits == last.inner.waits
        IN  /\ ~last.raised
            /\ calls <= retries
            /\ (last.value = NoEmbedding) <=> (Successes(service) = {})
            /\ Successes(service) # {} =>
                  /\ calls \in Successes(service)
                  /\ \A i \in Successes(service) : calls <= i
                  /\ last.value = service[calls].embedding
                  /\ waits = [i \in 1..(calls - 1) |-> 2 ^ (i - 1)]
            /\ Successes(service) = {} =>
                  /\ calls = retries
                  /\ waits = [i \in 1..(retries - 1) |-> 2 ^ (i - 1)]

(* the fourth of four calls is the first to succeed: its embedding is *)
(* returned after waits of 1, 2 and 4 seconds                         *)
C27_Witness ==
    /\ EmbeddingCall
    /\ last.args.retries = 4
    /\ Successes(last.args.service) = {4}
    /\ last.inner.calls = 4
    /\ last.inner.waits = <<1, 2, 4>>
    /\ last.value = <<3, 4>>

====
